---- MODULE Spec2Model ----
(***************************************************************************)
(* Model of the backtesting core of the trading system:                    *)
(*   trading_system/data/portfolio.py    Position, TradeRecord, Portfolio  *)
(*   trading_system/backtest/engine.py   BacktestEngine                    *)
(*   trading_system/backtest/metrics.py  BacktestMetrics, calculate_metrics*)
(*   trading_system/strategies/split_buy_strategy.py  SplitBuyStrategy     *)
(*                                                                         *)
(* Python floats are modelled as exact rationals <<numerator,denominator>> *)
(* in lowest terms with a positive denominator; binary64 rounding is not   *)
(* modelled.  The free-text `reason` of a trade record is diagnostic only  *)
(* and is left out of the records.                                         *)
(*                                                                         *)
(* Seven state machines share the definitions:                             *)
(*   Spec         any caller making execute_buy / execute_sell calls with  *)
(*                any arguments;                                           *)
(*   EngineSpec   the engine handling one strategy signal after the other, *)
(*                the strategy being any strategy;                         *)
(*   MetricsSpec  calculate_metrics called with any arguments;             *)
(*   RunSpec      run_backtest called, once and again, on one engine with  *)
(*                a strategy that is any function of what it is shown;     *)
(*   StrategySpec should_buy / generate_signal of the split-buy strategy   *)
(*                called with any arguments;                               *)
(*   SplitBuySpec run_backtest driven by the split-buy strategy;           *)
(*   RepeatedDateSpec  run_backtest on a frame with two rows for one date. *)
(***************************************************************************)
EXTENDS Integers, Sequences, FiniteSets, TLC

VARIABLES
    portfolio,      \* the Portfolio object (cash, positions, trade_history, ...)
    config,         \* the BacktestEngine's rates
    lastCall,       \* the last ledger call: its arguments and return value
    calls,          \* how many calls / signals there have been so far
    engine,         \* the BacktestEngine's other fields (valuations, metrics)
    run,            \* the position inside run_backtest and what it returned
    memo,           \* the strategy: the answers it has given, by question
    log,            \* every strategy invocation of the engine, in order
    results,        \* what each completed run_backtest call produced
    metricsCall,    \* a direct calculate_metrics call: arguments and result
    signalCall      \* a direct call of the split-buy strategy: arguments, result

vars ==
    <<portfolio, config, lastCall, calls, engine, run, memo, log, results,
      metricsCall, signalCall>>

(***************************************************************************)
(* Bounds of the model.                                                    *)
(***************************************************************************)
MaxQty == 2        \* largest quantity of a call or a signal
MaxPrice == 2      \* largest price / close
Today == 1         \* the date every modelled call carries
MaxCalls == 2      \* number of direct ledger calls in a behaviour
MaxSignals == 3    \* number of strategy signals in an engine behaviour
MaxCash == 4       \* initial cash
MaxRecs == 3       \* longest trade history handed to calculate_metrics
MaxVals == 4       \* longest valuation series handed to calculate_metrics
MaxRuns == 2       \* number of run_backtest calls on one engine
MaxRows == 3       \* longest market data handed to the strategy directly
MaxSplit == 2      \* largest split_count of the strategy

Tickers == {"A", "B"}
Quantities == 0..MaxQty

(***************************************************************************)
(* Float arithmetic, as exact rationals.                                   *)
(***************************************************************************)
Abs(n) == IF n < 0 THEN -n ELSE n

RECURSIVE GCD(_, _)
GCD(a, b) == IF b = 0 THEN a ELSE GCD(b, a % b)

\* the rational n/d (d # 0) in lowest terms with a positive denominator
Rat(n, d) ==
    LET s == IF d < 0 THEN -1 ELSE 1
        g == GCD(Abs(n), Abs(d))
    IN  <<(s * n) \div g, (s * d) \div g>>

F(i) == <<i, 1>>
Zero == F(0)

\* (common factors are divided out before multiplying, which keeps the
\* intermediate products small; the values are the same)
RAdd(a, b) ==
    LET g == GCD(a[2], b[2])
    IN  Rat(a[1] * (b[2] \div g) + b[1] * (a[2] \div g),
            (a[2] \div g) * b[2])
RNeg(a) == <<-a[1], a[2]>>
RSub(a, b) == RAdd(a, RNeg(b))
RMul(a, b) ==
    LET g == GCD(Abs(a[1]), Abs(b[2]))
        h == GCD(Abs(b[1]), Abs(a[2]))
    IN  IF a[1] = 0 \/ b[1] = 0 THEN <<0, 1>>
        ELSE Rat((a[1] \div g) * (b[1] \div h),
                 (a[2] \div h) * (b[2] \div g))
RDiv(a, b) == RMul(a, <<b[2], b[1]>>)
RLess(a, b) ==
    LET g == GCD(a[2], b[2])
    IN  IF g = 0 THEN a[1] * b[2] < b[1] * a[2]
        ELSE a[1] * (b[2] \div g) < b[1] * (a[2] \div g)
RLeq(a, b) ==
    LET g == GCD(a[2], b[2])
    IN  IF g = 0 THEN a[1] * b[2] <= b[1] * a[2]
        ELSE a[1] * (b[2] \div g) <= b[1] * (a[2] \div g)
RAbs(a) == <<Abs(a[1]), a[2]>>

Prices == {F(p) : p \in 1..MaxPrice}
Fees == {Zero, F(1)}

(***************************************************************************)
(* Position (portfolio.py)                                                 *)
(***************************************************************************)
Position(ticker) ==
    [ticker |-> ticker, quantity |-> 0, avg_price |-> Zero,
     buy_count |-> 0, total_invested |-> Zero]

\* update_on_buy with the quantity subtracted instead of added
update_on_buy_subtracts(pos, quantity, price) ==
    LET total_cost == RAdd(RMul(pos.avg_price, F(pos.quantity)),
                           RMul(price, F(quantity)))
        newq == pos.quantity - quantity
    IN  [pos EXCEPT
            !.quantity = newq,
            !.avg_price = IF newq > 0 THEN RDiv(total_cost, F(newq)) ELSE Zero,
            !.buy_count = @ + 1,
            !.total_invested = RAdd(@, RMul(price, F(quantity)))]

\* update_on_buy with total_cost computed after the quantity was increased
update_on_buy_stale_total(pos, quantity, price) ==
    LET newq == pos.quantity + quantity
        total_cost == RAdd(RMul(pos.avg_price, F(newq)),
                           RMul(price, F(quantity)))
    IN  [pos EXCEPT
            !.quantity = newq,
            !.avg_price = IF newq > 0 THEN RDiv(total_cost, F(newq)) ELSE Zero,
            !.buy_count = @ + 1,
            !.total_invested = RAdd(@, RMul(price, F(quantity)))]

update_on_buy(pos, quantity, price) ==
    LET total_cost == RAdd(RMul(pos.avg_price, F(pos.quantity)),
                           RMul(price, F(quantity)))
        newq == pos.quantity + quantity
    IN  [pos EXCEPT
            !.quantity = newq,
            !.avg_price = IF newq > 0 THEN RDiv(total_cost, F(newq)) ELSE Zero,
            !.buy_count = @ + 1,
            !.total_invested = RAdd(@, RMul(price, F(quantity)))]

update_on_sell(pos, quantity) ==
    LET q == IF quantity > pos.quantity THEN pos.quantity ELSE quantity
        newq == pos.quantity - q
    IN  IF newq = 0
        THEN [pos EXCEPT !.quantity = 0, !.avg_price = Zero,
                         !.buy_count = 0, !.total_invested = Zero]
        ELSE [pos EXCEPT !.quantity = newq]

(***************************************************************************)
(* TradeRecord and Portfolio (portfolio.py)                                *)
(***************************************************************************)
TradeRecord(date, ticker, side, quantity, price, commission, tax, profit, profit_rate) ==
    [date |-> date, ticker |-> ticker, side |-> side, quantity |-> quantity,
     price |-> price, commission |-> commission, tax |-> tax,
     profit |-> profit, profit_rate |-> profit_rate]

\* Portfolio.__init__ ; the empty date string is modelled as date 0
Portfolio(initial_cash) ==
    [initial_cash |-> initial_cash, cash |-> initial_cash,
     positions |-> <<>>, trade_history |-> <<>>,
     daily_loss |-> Zero, last_trade_date |-> 0]

\* Portfolio.total_invested with each position's own running total
RECURSIVE invested_running_total(_, _)
invested_running_total(pf, tickers) ==
    IF tickers = {} THEN Zero
    ELSE LET t == CHOOSE x \in tickers : TRUE
         IN  RAdd(pf.positions[t].total_invested,
                  invested_running_total(pf, tickers \ {t}))

total_invested_running(pf) == invested_running_total(pf, DOMAIN pf.positions)

\* sum(p.avg_price * p.quantity for p in positions.values())
RECURSIVE invested_over(_, _)
invested_over(pf, tickers) ==
    IF tickers = {} THEN Zero
    ELSE LET t == CHOOSE x \in tickers : TRUE
         IN  RAdd(RMul(pf.positions[t].avg_price, F(pf.positions[t].quantity)),
                  invested_over(pf, tickers \ {t}))

total_invested(pf) == invested_over(pf, DOMAIN pf.positions)

total_assets(pf) == RAdd(pf.cash, total_invested(pf))

\* Portfolio.get_position: the portfolio after the lookup (the key is
\* created on first access); the position itself is pf.positions[ticker]
get_position(pf, ticker) ==
    IF ticker \in DOMAIN pf.positions
    THEN pf
    ELSE [pf EXCEPT !.positions = @ @@ (ticker :> Position(ticker))]

\* execute_buy looking the position up before the cash check
execute_buy_position_first(pf, ticker, quantity, price, commission, date) ==
    LET total_cost == RAdd(RMul(price, F(quantity)), commission)
        pf0 == get_position(pf, ticker)
    IN  IF RLess(pf0.cash, total_cost)
        THEN [pf |-> pf0, ret |-> FALSE]
        ELSE [pf |-> [pf0 EXCEPT
                        !.cash = RSub(@, total_cost),
                        !.positions[ticker] =
                            update_on_buy(@, quantity, price),
                        !.trade_history =
                            Append(@, TradeRecord(date, ticker, "buy",
                                      quantity, price, commission,
                                      Zero, Zero, Zero))],
              ret |-> TRUE]

\* execute_buy inserting its record at the head of the history
execute_buy_prepends(pf, ticker, quantity, price, commission, date) ==
    LET total_cost == RAdd(RMul(price, F(quantity)), commission)
    IN  IF RLess(pf.cash, total_cost)
        THEN [pf |-> pf, ret |-> FALSE]
        ELSE LET pf1 == get_position([pf EXCEPT !.cash = RSub(@, total_cost)],
                                     ticker)
             IN  [pf |-> [pf1 EXCEPT
                            !.positions[ticker] =
                                update_on_buy(@, quantity, price),
                            !.trade_history =
                                <<TradeRecord(date, ticker, "buy",
                                      quantity, price, commission,
                                      Zero, Zero, Zero)>> \o @],
                  ret |-> TRUE]

execute_buy(pf, ticker, quantity, price, commission, date) ==
    LET total_cost == RAdd(RMul(price, F(quantity)), commission)
    IN  IF RLess(pf.cash, total_cost)
        THEN [pf |-> pf, ret |-> FALSE]
        ELSE LET pf1 == get_position([pf EXCEPT !.cash = RSub(@, total_cost)],
                                     ticker)
             IN  [pf |-> [pf1 EXCEPT
                            !.positions[ticker] =
                                update_on_buy(@, quantity, price),
                            !.trade_history =
                                Append(@, TradeRecord(date, ticker, "buy",
                                          quantity, price, commission,
                                          Zero, Zero, Zero))],
                  ret |-> TRUE]

\* the bookkeeping of a sell that goes through, given the avg_price it uses
sell_fill(pf1, ticker, quantity, price, commission, tax, date, avg_price) ==
    LET revenue == RSub(RSub(RMul(price, F(quantity)), commission), tax)
        profit == RSub(RSub(RMul(RSub(price, avg_price), F(quantity)),
                            commission), tax)
        profit_rate ==
            IF RLess(Zero, avg_price)
            THEN RMul(RDiv(RSub(price, avg_price), avg_price), F(100))
            ELSE Zero
        loss0 == IF date # pf1.last_trade_date THEN Zero ELSE pf1.daily_loss
        loss1 == IF RLess(profit, Zero)
                 THEN RAdd(loss0, RAbs(profit)) ELSE loss0
    IN  [pf1 EXCEPT
            !.cash = RAdd(@, revenue),
            !.positions[ticker] = update_on_sell(@, quantity),
            !.daily_loss = loss1,
            !.last_trade_date = date,
            !.trade_history =
                Append(@, TradeRecord(date, ticker, "sell", quantity, price,
                                      commission, tax, profit, profit_rate))]

\* execute_sell without the holdings check: the position update clamps
execute_sell_clamped(pf, ticker, quantity, price, commission, tax, date) ==
    LET pf1 == get_position(pf, ticker)
    IN  [pf |-> sell_fill(pf1, ticker, quantity, price, commission, tax, date,
                          pf1.positions[ticker].avg_price),
         ret |-> TRUE]

\* execute_sell reading avg_price after the position was updated
execute_sell_avg_after(pf, ticker, quantity, price, commission, tax, date) ==
    LET pf1 == get_position(pf, ticker)
        position == pf1.positions[ticker]
    IN  IF position.quantity < quantity
        THEN [pf |-> pf1, ret |-> FALSE]
        ELSE [pf |-> sell_fill(pf1, ticker, quantity, price, commission, tax,
                               date,
                               update_on_sell(position, quantity).avg_price),
              ret |-> TRUE]

execute_sell(pf, ticker, quantity, price, commission, tax, date) ==
    LET pf1 == get_position(pf, ticker)
        position == pf1.positions[ticker]
    IN  IF position.quantity < quantity
        THEN [pf |-> pf1, ret |-> FALSE]
        ELSE [pf |-> sell_fill(pf1, ticker, quantity, price, commission, tax,
                               date, position.avg_price),
              ret |-> TRUE]

(***************************************************************************)
(* BacktestEngine (engine.py)                                              *)
(***************************************************************************)
\* BacktestEngine.__init__: the recognised options.  ZeroConfig stands for a
\* ledger used without an engine; the engine runs with small non-zero rates.
ZeroConfig ==
    [commission_rate |-> Zero, tax_rate |-> Zero, slippage_rate |-> Zero]
Configs ==
    {[commission_rate |-> Rat(1, 4), tax_rate |-> Rat(1, 4),
      slippage_rate |-> Rat(1, 2)]}

\* the arguments BacktestEngine._execute_buy passes to Portfolio.execute_buy
buy_exec_price_at_close(cfg, price) == price

buy_exec_price(cfg, price) == RMul(price, RAdd(F(1), cfg.slippage_rate))
buy_commission(cfg, quantity, price) ==
    RMul(RMul(buy_exec_price(cfg, price), F(quantity)), cfg.commission_rate)

engine_execute_buy(pf, cfg, ticker, quantity, price, date) ==
    execute_buy(pf, ticker, quantity, buy_exec_price(cfg, price),
                buy_commission(cfg, quantity, price), date)

\* the arguments BacktestEngine._execute_sell passes to Portfolio.execute_sell
sell_exec_price(cfg, price) == RMul(price, RSub(F(1), cfg.slippage_rate))
sell_commission(cfg, quantity, price) ==
    RMul(RMul(sell_exec_price(cfg, price), F(quantity)), cfg.commission_rate)
sell_tax(cfg, quantity, price) ==
    RMul(RMul(sell_exec_price(cfg, price), F(quantity)), cfg.tax_rate)

engine_execute_sell(pf, cfg, ticker, quantity, price, date) ==
    execute_sell(pf, ticker, quantity, sell_exec_price(cfg, price),
                 sell_commission(cfg, quantity, price),
                 sell_tax(cfg, quantity, price), date)

(***************************************************************************)
(* Performance metrics (metrics.py)                                        *)
(*                                                                         *)
(* float("inf") is the rational <<1, 0>>.  Two fields are not rational     *)
(* (a fractional power, a square root); each is carried as the arguments   *)
(* that determine it:                                                      *)
(*   annual_return  [base, years]  standing for (base^(1/years) - 1) * 100 *)
(*   sharpe_ratio   the daily returns r, standing for                      *)
(*                  mean(r - rf) / std(r - rf) * sqrt(252); <<>> is 0.0    *)
(***************************************************************************)
TradingDaysPerYear == 252
Inf == <<1, 0>>

NoAnnual == [base |-> F(1), years |-> F(1)]
NoSharpe == <<>>

BacktestMetrics ==
    [total_return |-> Zero, annual_return |-> NoAnnual,
     sharpe_ratio |-> NoSharpe, max_drawdown |-> Zero, win_rate |-> Zero,
     avg_profit |-> Zero, avg_loss |-> Zero, profit_factor |-> Zero,
     total_trades |-> 0, winning_trades |-> 0, losing_trades |-> 0,
     avg_holding_days |-> Zero, max_consecutive_wins |-> 0,
     max_consecutive_losses |-> 0]

RECURSIVE RSum(_)
RSum(s) == IF s = <<>> THEN Zero ELSE RAdd(Head(s), RSum(Tail(s)))

\* (final_value - initial_cash) / initial_cash * 100
total_return(final_value, initial_cash) ==
    RMul(RDiv(RSub(final_value, initial_cash), initial_cash), F(100))

annual_return(final_value, initial_cash, trading_days) ==
    LET years == Rat(trading_days, TradingDaysPerYear)
        total_ratio == RDiv(final_value, initial_cash)
    IN  IF trading_days > 0 /\ RLess(Zero, years) /\ total_ratio # F(1)
        THEN [base |-> total_ratio, years |-> years]
        ELSE NoAnnual

RECURSIVE daily_returns(_, _)
daily_returns(daily_values, i) ==
    IF i > Len(daily_values) THEN <<>>
    ELSE LET prev == daily_values[i - 1]
             rest == daily_returns(daily_values, i + 1)
         IN  IF RLess(Zero, prev)
             THEN <<RDiv(RSub(daily_values[i], prev), prev)>> \o rest
             ELSE rest

\* np.std(excess_returns) > 0: the returns are not all the same
sharpe_ratio(daily_values) ==
    LET r == daily_returns(daily_values, 2)
    IN  IF r # <<>> /\ (\E i \in 1..Len(r) : r[i] # r[1]) THEN r
        ELSE NoSharpe

\* the loop of the MDD block from its i-th value on; dividing by a zero
\* peak raises ZeroDivisionError
RECURSIVE drawdown_scan_stale_peak(_, _, _, _)
drawdown_scan_stale_peak(daily_values, i, peak, max_dd) ==
    IF i > Len(daily_values) THEN [raised |-> FALSE, max_dd |-> max_dd]
    ELSE IF peak = Zero THEN [raised |-> TRUE, max_dd |-> max_dd]
    ELSE LET dd == RMul(RDiv(RSub(peak, daily_values[i]), peak), F(100))
         IN  drawdown_scan_stale_peak(daily_values, i + 1, peak,
                                      IF RLess(max_dd, dd) THEN dd
                                      ELSE max_dd)

RECURSIVE drawdown_scan(_, _, _, _)
drawdown_scan(daily_values, i, peak, max_dd) ==
    IF i > Len(daily_values) THEN [raised |-> FALSE, max_dd |-> max_dd]
    ELSE LET value == daily_values[i]
             peak1 == IF RLess(peak, value) THEN value ELSE peak
         IN  IF peak1 = Zero THEN [raised |-> TRUE, max_dd |-> max_dd]
             ELSE LET dd == RMul(RDiv(RSub(peak1, value), peak1), F(100))
                  IN  drawdown_scan(daily_values, i + 1, peak1,
                                    IF RLess(max_dd, dd) THEN dd
                                    ELSE max_dd)

max_drawdown(daily_values) ==
    drawdown_scan(daily_values, 1, daily_values[1], Zero)

sell_trades_any_side(trade_history) == trade_history

sell_trades(trade_history) ==
    SelectSeq(trade_history, LAMBDA t : t.side = "sell")

RECURSIVE profits_of(_)
profits_of(trades) ==
    IF trades = <<>> THEN <<>>
    ELSE <<Head(trades).profit>> \o profits_of(Tail(trades))

winners_of(profits) == SelectSeq(profits, LAMBDA p : RLess(Zero, p))
losers_of(profits) == SelectSeq(profits, LAMBDA p : RLeq(p, Zero))

profit_factor_zero_without_loss(profits) ==
    LET winners == winners_of(profits)
        losers == losers_of(profits)
        total_profit == IF winners # <<>> THEN RSum(winners) ELSE Zero
        total_loss == IF losers # <<>> THEN RAbs(RSum(losers)) ELSE Zero
    IN  IF RLess(Zero, total_loss) THEN RDiv(total_profit, total_loss)
        ELSE Zero

profit_factor(profits) ==
    LET winners == winners_of(profits)
        losers == losers_of(profits)
        total_profit == IF winners # <<>> THEN RSum(winners) ELSE Zero
        total_loss == IF losers # <<>> THEN RAbs(RSum(losers)) ELSE Zero
    IN  IF RLess(Zero, total_loss) THEN RDiv(total_profit, total_loss)
        ELSE Inf

Max(a, b) == IF a > b THEN a ELSE b

RECURSIVE streak_scan_without_reset(_, _, _, _, _, _)
streak_scan_without_reset(profits, i, consecutive_wins, consecutive_losses, max_wins, max_losses) ==
    IF i > Len(profits) THEN [max_wins |-> max_wins, max_losses |-> max_losses]
    ELSE IF RLess(Zero, profits[i])
         THEN streak_scan_without_reset(profits, i + 1,
                  consecutive_wins + 1, consecutive_losses,
                  Max(max_wins, consecutive_wins + 1), max_losses)
         ELSE streak_scan_without_reset(profits, i + 1,
                  consecutive_wins, consecutive_losses + 1,
                  max_wins, Max(max_losses, consecutive_losses + 1))

\* the streak loop from the i-th profit on
RECURSIVE streak_scan(_, _, _, _, _, _)
streak_scan(profits, i, consecutive_wins, consecutive_losses, max_wins, max_losses) ==
    IF i > Len(profits) THEN [max_wins |-> max_wins, max_losses |-> max_losses]
    ELSE IF RLess(Zero, profits[i])
         THEN streak_scan(profits, i + 1, consecutive_wins + 1, 0,
                          Max(max_wins, consecutive_wins + 1), max_losses)
         ELSE streak_scan(profits, i + 1, 0, consecutive_losses + 1,
                          max_wins, Max(max_losses, consecutive_losses + 1))

\* the trade-based block: the fields it assigns, on top of metrics
trade_metrics(metrics, trade_history) ==
    LET sells == sell_trades(trade_history)
        profits == profits_of(sells)
        winners == winners_of(profits)
        losers == losers_of(profits)
        streaks == streak_scan(profits, 1, 0, 0, 0, 0)
    IN  IF sells = <<>> THEN [metrics EXCEPT !.total_trades = 0]
        ELSE [metrics EXCEPT
                 !.total_trades = Len(sells),
                 !.winning_trades = Len(winners),
                 !.losing_trades = Len(losers),
                 !.win_rate = RMul(Rat(Len(winners), Len(sells)), F(100)),
                 !.avg_profit = IF winners # <<>>
                                THEN RDiv(RSum(winners), F(Len(winners)))
                                ELSE metrics.avg_profit,
                 !.avg_loss = IF losers # <<>>
                              THEN RDiv(RSum(losers), F(Len(losers)))
                              ELSE metrics.avg_loss,
                 !.profit_factor = profit_factor(profits),
                 !.max_consecutive_wins = streaks.max_wins,
                 !.max_consecutive_losses = streaks.max_losses]

Returned(metrics) == [raised |-> FALSE, metrics |-> metrics]
Raised == [raised |-> TRUE, metrics |-> BacktestMetrics]

\* the blocks after the early return
metrics_of_values(trade_history, daily_values, initial_cash, trading_days) ==
    LET final_value == daily_values[Len(daily_values)]
        mdd == max_drawdown(daily_values)
    IN  IF initial_cash = Zero \/ mdd.raised THEN Raised
        ELSE Returned(trade_metrics(
                 [BacktestMetrics EXCEPT
                     !.total_return = total_return(final_value, initial_cash),
                     !.annual_return = annual_return(final_value,
                                           initial_cash, trading_days),
                     !.sharpe_ratio = sharpe_ratio(daily_values),
                     !.max_drawdown = mdd.max_dd],
                 trade_history))

calculate_metrics_without_early_return(trade_history, daily_values, initial_cash, trading_days) ==
    IF daily_values = <<>>
    THEN Returned(trade_metrics(BacktestMetrics, trade_history))
    ELSE metrics_of_values(trade_history, daily_values, initial_cash,
                           trading_days)

calculate_metrics(trade_history, daily_values, initial_cash, trading_days) ==
    IF daily_values = <<>> THEN Returned(BacktestMetrics)
    ELSE metrics_of_values(trade_history, daily_values, initial_cash,
                           trading_days)

(***************************************************************************)
(* BacktestEngine.run_backtest (engine.py)                                 *)
(*                                                                         *)
(* A DataFrame is the sequence of its rows [date, close] in the order the  *)
(* caller supplied them; the instrument map is the sequence of its         *)
(* [ticker, rows] items in insertion order.  Dates are day numbers.        *)
(***************************************************************************)
Lookback == 30            \* available_data.tail(30)
DefaultSplitCount == 5    \* strategy.params.get("split_count", 5)

Row(date, close) == [date |-> date, close |-> close]

RECURSIVE sorted_descending(_)
sorted_descending(S) ==
    IF S = {} THEN <<>>
    ELSE LET most == CHOOSE x \in S : \A y \in S : x >= y
         IN  <<most>> \o sorted_descending(S \ {most})

\* sorted(all_dates): the ascending sequence of a set of dates
RECURSIVE sorted(_)
sorted(S) ==
    IF S = {} THEN <<>>
    ELSE LET least == CHOOSE x \in S : \A y \in S : x <= y
         IN  <<least>> \o sorted(S \ {least})

dates_in_window_unbounded(rows, start_date, end_date) ==
    {rows[i].date : i \in 1..Len(rows)}

\* the dates of one frame that lie inside [start_date, end_date]
dates_in_window(rows, start_date, end_date) ==
    {rows[i].date : i \in {j \in 1..Len(rows) :
                              /\ rows[j].date >= start_date
                              /\ rows[j].date <= end_date}}

all_dates(data, start_date, end_date) ==
    UNION {dates_in_window(data[i].rows, start_date, end_date) :
              i \in 1..Len(data)}

\* df.sort_values("date"): row into its place among rows already in order
\* (rows of equal date keep the order in which they came)
RECURSIVE insert_by_date(_, _)
insert_by_date(rows, row) ==
    IF rows = <<>> THEN <<row>>
    ELSE IF rows[Len(rows)].date <= row.date THEN Append(rows, row)
    ELSE Append(insert_by_date(SubSeq(rows, 1, Len(rows) - 1), row),
                rows[Len(rows)])

RECURSIVE sort_values(_)
sort_values(rows) ==
    IF rows = <<>> THEN <<>>
    ELSE insert_by_date(sort_values(SubSeq(rows, 1, Len(rows) - 1)),
                        rows[Len(rows)])

\* the engine's own frames: one per item of the map, in the map's order
ticker_data_reversed(data) ==
    [i \in 1..Len(data) |->
        [ticker |-> data[Len(data) + 1 - i].ticker,
         rows |-> sort_values(data[Len(data) + 1 - i].rows)]]

ticker_data_of(data) ==
    [i \in 1..Len(data) |->
        [ticker |-> data[i].ticker, rows |-> sort_values(data[i].rows)]]

available_data_unmasked(df, current_date) == df

\* df[df["date"] <= current_date]
available_data(df, current_date) ==
    SelectSeq(df, LAMBDA r : r.date <= current_date)

today_data_or_earlier(df, current_date) ==
    SelectSeq(df, LAMBDA r : r.date <= current_date)

\* df[df["date"] == current_date]
today_data(df, current_date) ==
    SelectSeq(df, LAMBDA r : r.date = current_date)

\* DataFrame.tail(n)
tail(rows, n) ==
    IF Len(rows) <= n THEN rows
    ELSE SubSeq(rows, Len(rows) - n + 1, Len(rows))

PositionInfo(position) ==
    [ticker |-> position.ticker, quantity |-> position.quantity,
     avg_price |-> position.avg_price, buy_count |-> position.buy_count,
     max_buy_count |-> DefaultSplitCount]

\* the arguments of one strategy.generate_signal call
Question(df, pf, ticker, current_date) ==
    [market_data |-> tail(available_data(df, current_date), Lookback),
     position_info |-> PositionInfo(pf.positions[ticker]),
     available_cash |-> pf.cash]

Signal(signal_type, quantity) ==
    [signal_type |-> signal_type, quantity |-> quantity]

\* every signal a strategy whose order sizes are `sizes` can return
Signals(sizes) ==
    {Signal("HOLD", 0)}
    \cup {Signal(t, q) : t \in {"BUY", "SELL"}, q \in sizes}

execute_signal_buy_unless_sell(pf, cfg, ticker, signal, current_price, current_date) ==
    IF signal.signal_type = "SELL"
    THEN engine_execute_sell(pf, cfg, ticker, signal.quantity,
                             current_price, current_date)
    ELSE engine_execute_buy(pf, cfg, ticker, signal.quantity,
                            current_price, current_date)

\* _simulate_day, the signal execution: the portfolio afterwards and
\* whether the ledger filled the order
execute_signal(pf, cfg, ticker, signal, current_price, current_date) ==
    IF signal.signal_type = "BUY"
    THEN engine_execute_buy(pf, cfg, ticker, signal.quantity,
                            current_price, current_date)
    ELSE IF signal.signal_type = "SELL"
    THEN engine_execute_sell(pf, cfg, ticker, signal.quantity,
                             current_price, current_date)
    ELSE [pf |-> pf, ret |-> FALSE]

\* Portfolio.get_holding_tickers
get_holding_tickers(pf) ==
    {t \in DOMAIN pf.positions : pf.positions[t].quantity > 0}

\* the frame of a ticker, <<>> when the map has none
frame_of(ticker_data, ticker) ==
    LET at == {i \in 1..Len(ticker_data) : ticker_data[i].ticker = ticker}
    IN  IF at = {} THEN <<>> ELSE ticker_data[CHOOSE i \in at : TRUE].rows

valuation_price_at_cost(pf, ticker_data, ticker, current_date) ==
    pf.positions[ticker].avg_price

\* the price _calculate_total_value gives a held ticker
valuation_price(pf, ticker_data, ticker, current_date) ==
    LET today == today_data(frame_of(ticker_data, ticker), current_date)
    IN  IF today # <<>> THEN today[1].close
        ELSE pf.positions[ticker].avg_price

RECURSIVE holdings_value(_, _, _, _)
holdings_value(pf, ticker_data, tickers, current_date) ==
    IF tickers = {} THEN Zero
    ELSE LET t == CHOOSE x \in tickers : TRUE
         IN  RAdd(RMul(F(pf.positions[t].quantity),
                       valuation_price(pf, ticker_data, t, current_date)),
                  holdings_value(pf, ticker_data, tickers \ {t},
                                 current_date))

calculate_total_value(pf, ticker_data, current_date) ==
    RAdd(pf.cash, holdings_value(pf, ticker_data, get_holding_tickers(pf),
                                 current_date))

(***************************************************************************)
(* SplitBuyStrategy (strategies/split_buy_strategy.py)                     *)
(***************************************************************************)
\* the merged parameters the strategy reads
Params(total_seed, split_count, buy_threshold, lookback_days, sell_profit_rate, stop_loss_rate, min_volume_threshold) ==
    [total_seed |-> total_seed, split_count |-> split_count,
     buy_threshold |-> buy_threshold, lookback_days |-> lookback_days,
     sell_profit_rate |-> sell_profit_rate,
     stop_loss_rate |-> stop_loss_rate,
     min_volume_threshold |-> min_volume_threshold]

\* a row of market data as the strategy reads it
VolumeRow(date, close, volume) ==
    [date |-> date, close |-> close, volume |-> volume]

\* int(a // b) for b > 0
FloorDiv(a, b) ==
    LET q == RDiv(a, b) IN q[1] \div q[2]

\* min(a, b)
RMin(a, b) == IF RLess(b, a) THEN b ELSE a

\* (later - earlier) / earlier * 100
rate_of_change(earlier, later) ==
    RMul(RDiv(RSub(later, earlier), earlier), F(100))

calculate_position_size(params, available_cash, price) ==
    IF RLeq(price, Zero) THEN 0
    ELSE LET position_size == RDiv(params.total_seed, F(params.split_count))
             buy_amount == RMin(position_size, available_cash)
         IN  FloorDiv(buy_amount, price)

should_buy_uncounted(params, market_data, position_info, available_cash) ==
    IF Len(market_data) < params.lookback_days + 1 THEN FALSE
    ELSE LET current_price == market_data[Len(market_data)].close
             current_volume == market_data[Len(market_data)].volume
             n_days_ago_close ==
                 market_data[Len(market_data) - params.lookback_days].close
         IN  IF RLess(available_cash,
                      RMul(RDiv(params.total_seed, F(params.split_count)),
                           Rat(1, 2)))
             THEN FALSE
             ELSE IF current_volume < params.min_volume_threshold THEN FALSE
             ELSE IF RLeq(n_days_ago_close, Zero) THEN FALSE
             ELSE ~RLeq(RNeg(rate_of_change(n_days_ago_close, current_price)),
                        params.buy_threshold)

should_buy_at_threshold(params, market_data, position_info, available_cash) ==
    IF Len(market_data) < params.lookback_days + 1 THEN FALSE
    ELSE LET current_price == market_data[Len(market_data)].close
             current_volume == market_data[Len(market_data)].volume
             n_days_ago_close ==
                 market_data[Len(market_data) - params.lookback_days].close
         IN  IF position_info.buy_count >= params.split_count THEN FALSE
             ELSE IF RLess(available_cash,
                           RMul(RDiv(params.total_seed, F(params.split_count)),
                                Rat(1, 2)))
             THEN FALSE
             ELSE IF current_volume < params.min_volume_threshold THEN FALSE
             ELSE IF RLeq(n_days_ago_close, Zero) THEN FALSE
             ELSE ~RLess(RNeg(rate_of_change(n_days_ago_close, current_price)),
                         params.buy_threshold)

\* should_buy, without the reason text
should_buy(params, market_data, position_info, available_cash) ==
    IF Len(market_data) < params.lookback_days + 1 THEN FALSE
    ELSE LET current_price == market_data[Len(market_data)].close
             current_volume == market_data[Len(market_data)].volume
             n_days_ago_close ==
                 market_data[Len(market_data) - params.lookback_days].close
         IN  IF position_info.buy_count >= params.split_count THEN FALSE
             ELSE IF RLess(available_cash,
                           RMul(RDiv(params.total_seed, F(params.split_count)),
                                Rat(1, 2)))
             THEN FALSE
             ELSE IF current_volume < params.min_volume_threshold THEN FALSE
             ELSE IF RLeq(n_days_ago_close, Zero) THEN FALSE
             ELSE ~RLeq(RNeg(rate_of_change(n_days_ago_close, current_price)),
                        params.buy_threshold)

\* should_sell, without the reason text
should_sell(params, market_data, position_info) ==
    IF position_info.quantity <= 0 \/ RLeq(position_info.avg_price, Zero)
    THEN FALSE
    ELSE LET current_price == market_data[Len(market_data)].close
             profit_rate == rate_of_change(position_info.avg_price,
                                           current_price)
         IN  \/ RLeq(params.sell_profit_rate, profit_rate)
             \/ /\ RLess(Zero, params.stop_loss_rate)
                /\ RLeq(profit_rate, RNeg(params.stop_loss_rate))

generate_signal(params, market_data, position_info, available_cash) ==
    IF market_data = <<>> \/ Len(market_data) < params.lookback_days + 1
    THEN Signal("HOLD", 0)
    ELSE LET current_price == market_data[Len(market_data)].close
             qty == calculate_position_size(params, available_cash,
                                            current_price)
         IN  IF /\ position_info.quantity > 0
                /\ should_sell(params, market_data, position_info)
             THEN Signal("SELL", position_info.quantity)
             ELSE IF /\ should_buy(params, market_data, position_info,
                                   available_cash)
                     /\ qty > 0
             THEN Signal("BUY", qty)
             ELSE Signal("HOLD", 0)

(***************************************************************************)
(* State machines.                                                         *)
(***************************************************************************)
NoCall ==
    [op |-> "none", ticker |-> "A", quantity |-> 0, price |-> Zero,
     commission |-> Zero, tax |-> Zero, ret |-> FALSE]

\* BacktestEngine.__init__: no valuations, no metrics yet (None is <<>>)
NewEngine(initial_cash) ==
    [initial_cash |-> initial_cash, daily_values |-> <<>>,
     daily_dates |-> <<>>, metrics |-> <<>>]

\* no run_backtest call has begun
NoInput ==
    [data |-> <<>>, start_date |-> 1, end_date |-> 0, sizes |-> {},
     strategy |-> <<>>]
IdleRun ==
    [pc |-> "idle", input |-> NoInput, trading_dates |-> <<>>,
     ticker_data |-> <<>>, day |-> 0, idx |-> 0, returned |-> <<>>,
     n |-> 0, report |-> <<>>]

\* no calculate_metrics call has been made
NoMetricsCall ==
    [trade_history |-> <<>>, daily_values |-> <<>>, initial_cash |-> Zero,
     trading_days |-> 0, called |-> FALSE,
     result |-> Returned(BacktestMetrics)]

\* no direct call of the strategy has been made
NoSignalCall ==
    [op |-> "none", params |-> <<>>, market_data |-> <<>>,
     position_info |-> <<>>, available_cash |-> Zero, called |-> FALSE,
     bought |-> FALSE, signal |-> Signal("HOLD", 0)]

\* the parts of the state a ledger-only behaviour never touches
NoBacktest ==
    /\ engine = NewEngine(F(MaxCash))
    /\ run = IdleRun
    /\ memo = <<>>
    /\ log = <<>>
    /\ results = <<>>

Call(op, ticker, quantity, price, commission, tax, ret) ==
    [op |-> op, ticker |-> ticker, quantity |-> quantity, price |-> price,
     commission |-> commission, tax |-> tax, ret |-> ret]

\* a Portfolio(initial_cash) before its first call; no engine is involved
Init ==
    /\ portfolio = Portfolio(F(MaxCash))
    /\ config = ZeroConfig
    /\ lastCall = NoCall
    /\ calls = 0
    /\ NoBacktest
    /\ metricsCall = NoMetricsCall
    /\ signalCall = NoSignalCall

\* --- the ledger called directly, with any arguments ---------------------
ExecuteBuy ==
    /\ calls < MaxCalls
    /\ calls' = calls + 1
    /\ \E t \in Tickers, q \in Quantities, p \in Prices, c \in Fees :
          \E r \in {execute_buy(portfolio, t, q, p, c, Today)} :
              /\ portfolio' = r.pf
              /\ lastCall' = Call("buy", t, q, p, c, Zero, r.ret)
    /\ UNCHANGED <<config, engine, run, memo, log, results, metricsCall,
                   signalCall>>

ExecuteSell ==
    /\ calls < MaxCalls
    /\ calls' = calls + 1
    /\ \E t \in Tickers, q \in Quantities, p \in Prices, c \in Fees,
          x \in Fees :
          \E r \in {execute_sell(portfolio, t, q, p, c, x, Today)} :
              /\ portfolio' = r.pf
              /\ lastCall' = Call("sell", t, q, p, c, x, r.ret)
    /\ UNCHANGED <<config, engine, run, memo, log, results, metricsCall,
                   signalCall>>

Next == ExecuteBuy \/ ExecuteSell

Spec == Init /\ [][Next]_vars

\* --- the ledger called by the engine: one ticker of _simulate_day --------
\* run_backtest: a fresh Portfolio(self.initial_cash), the engine's rates
EngineInit ==
    /\ portfolio = Portfolio(F(MaxCash))
    /\ config \in Configs
    /\ lastCall = NoCall
    /\ calls = 0
    /\ NoBacktest
    /\ metricsCall = NoMetricsCall
    /\ signalCall = NoSignalCall

\* (the ticker has a row for Today with the given close; the strategy
\* is any strategy: it returns any signal type with any quantity)
SignalBuy ==
    /\ calls < MaxSignals
    /\ calls' = calls + 1
    /\ \E t \in Tickers, close \in Prices, q \in Quantities :
          \E r \in {engine_execute_buy(get_position(portfolio, t), config,
                                        t, q, close, Today)} :
              /\ portfolio' = r.pf
              /\ lastCall' = Call("buy", t, q, buy_exec_price(config, close),
                                  buy_commission(config, q, close), Zero,
                                  r.ret)
    /\ UNCHANGED <<config, engine, run, memo, log, results, metricsCall,
                   signalCall>>

SignalSell ==
    /\ calls < MaxSignals
    /\ calls' = calls + 1
    /\ \E t \in Tickers, close \in Prices, q \in Quantities :
          \E r \in {engine_execute_sell(get_position(portfolio, t), config,
                                         t, q, close, Today)} :
              /\ portfolio' = r.pf
              /\ lastCall' = Call("sell", t, q,
                                  sell_exec_price(config, close),
                                  sell_commission(config, q, close),
                                  sell_tax(config, q, close), r.ret)
    /\ UNCHANGED <<config, engine, run, memo, log, results, metricsCall,
                   signalCall>>

SignalHold ==
    /\ calls < MaxSignals
    /\ calls' = calls + 1
    /\ \E t \in Tickers :
          /\ portfolio' = get_position(portfolio, t)
          /\ lastCall' = Call("hold", t, 0, Zero, Zero, Zero, FALSE)
    /\ UNCHANGED <<config, engine, run, memo, log, results, metricsCall,
                   signalCall>>

EngineNext == SignalBuy \/ SignalSell \/ SignalHold

EngineSpec == EngineInit /\ [][EngineNext]_vars

\* --- calculate_metrics called directly, with any arguments ---------------
SeqsUpTo(S, n) == UNION {[1..k -> S] : k \in 0..n}

\* trade records as the ledger writes them: buys carry no profit
MetricProfits == {F(-1), Zero, F(2)}
MetricRecords ==
    {TradeRecord(Today, "A", "buy", 1, F(1), Zero, Zero, Zero, Zero)}
    \cup {TradeRecord(Today, "A", "sell", 1, F(1), Zero, Zero, p,
                      RMul(p, F(100))) : p \in MetricProfits}
\* valuation series: a first value, then day-to-day moves
MetricStarts == {Zero, F(100)}
MetricSteps == {F(-30), F(20)}
RECURSIVE ValueWalks(_)
ValueWalks(n) ==
    IF n = 0 THEN {<<>>}
    ELSE IF n = 1 THEN {<<v>> : v \in MetricStarts}
    ELSE {Append(w, RAdd(w[n - 1], d)) :
             w \in ValueWalks(n - 1), d \in MetricSteps}
MetricValueSeries == UNION {ValueWalks(n) : n \in 0..MaxVals}
MetricCash == {Zero, F(100)}
MetricDayCounts == {0, TradingDaysPerYear}

MetricsInit ==
    /\ portfolio = Portfolio(F(MaxCash))
    /\ config = ZeroConfig
    /\ lastCall = NoCall
    /\ calls = 0
    /\ NoBacktest
    /\ \E h \in SeqsUpTo(MetricRecords, MaxRecs),
          v \in MetricValueSeries,
          c \in MetricCash, d \in MetricDayCounts :
          metricsCall = [trade_history |-> h, daily_values |-> v,
                         initial_cash |-> c, trading_days |-> d,
                         called |-> FALSE,
                         result |-> Returned(BacktestMetrics)]
    /\ signalCall = NoSignalCall

CalculateMetrics ==
    /\ ~metricsCall.called
    /\ metricsCall' =
          [metricsCall EXCEPT
              !.called = TRUE,
              !.result = calculate_metrics(metricsCall.trade_history,
                             metricsCall.daily_values,
                             metricsCall.initial_cash,
                             metricsCall.trading_days)]
    /\ UNCHANGED <<portfolio, config, lastCall, calls, engine, run, memo,
                   log, results, signalCall>>

MetricsNext == CalculateMetrics

MetricsSpec == MetricsInit /\ [][MetricsNext]_vars

\* --- the split-buy strategy called directly, with any arguments ----------
\* closes of up to MaxRows consecutive days, every row with the one volume
CloseSeries == UNION {[1..k -> Prices] : k \in 1..MaxRows}
MarketData ==
    {[i \in 1..Len(c) |-> VolumeRow(i, c[i], v)] :
        c \in CloseSeries, v \in {0, 1}}

\* two thresholds; one or two days of lookback; a profit target alone or a
\* profit target with a stop loss; at least one unit of volume asked for
StrategyParams ==
    {Params(F(MaxCash), n, t, l, s[1], s[2], 1) :
        n \in 1..MaxSplit, t \in {Zero, F(50)}, l \in {1, 2},
        s \in {<<F(50), Zero>>, <<F(100), F(50)>>}}

PositionInfos ==
    {[ticker |-> "A", quantity |-> q[1], avg_price |-> q[2],
      buy_count |-> b, max_buy_count |-> MaxSplit] :
        q \in {<<0, Zero>>} \cup {<<1, p>> : p \in Prices},
        b \in 0..MaxSplit}

StrategyInit ==
    /\ portfolio = Portfolio(F(MaxCash))
    /\ config = ZeroConfig
    /\ lastCall = NoCall
    /\ calls = 0
    /\ NoBacktest
    /\ metricsCall = NoMetricsCall
    /\ \E p \in StrategyParams, m \in MarketData, i \in PositionInfos,
          c \in {Zero, F(MaxCash)} :
          signalCall = [NoSignalCall EXCEPT
                           !.params = p, !.market_data = m,
                           !.position_info = i, !.available_cash = c]

ShouldBuy ==
    /\ ~signalCall.called
    /\ signalCall' =
          [signalCall EXCEPT
              !.op = "should_buy",
              !.called = TRUE,
              !.bought = should_buy(signalCall.params,
                             signalCall.market_data,
                             signalCall.position_info,
                             signalCall.available_cash)]
    /\ UNCHANGED <<portfolio, config, lastCall, calls, engine, run, memo,
                   log, results, metricsCall>>

GenerateSignal ==
    /\ ~signalCall.called
    /\ signalCall' =
          [signalCall EXCEPT
              !.op = "generate_signal",
              !.called = TRUE,
              !.signal = generate_signal(signalCall.params,
                             signalCall.market_data,
                             signalCall.position_info,
                             signalCall.available_cash)]
    /\ UNCHANGED <<portfolio, config, lastCall, calls, engine, run, memo,
                   log, results, metricsCall>>

StrategyNext == ShouldBuy \/ GenerateSignal

StrategySpec == StrategyInit /\ [][StrategyNext]_vars

\* --- run_backtest, called on one engine with a pure strategy -------------
\* the caller's frame of a ticker: one row per date, in ascending or in
\* descending order of date
RECURSIVE reversed(_)
reversed(s) ==
    IF s = <<>> THEN <<>> ELSE Append(reversed(Tail(s)), Head(s))

frame(dates, close, descending) ==
    LET ascending == [i \in 1..Cardinality(dates) |->
                         Row(sorted(dates)[i], close[sorted(dates)[i]])]
    IN  IF descending THEN reversed(ascending) ELSE ascending

\* closes by date: A rises, B falls
Days == 1..(Lookback + 2)
CloseA == [date \in Days |-> F(date)]
CloseB == [date \in Days |-> F(Max(1, MaxPrice + 1 - date))]
One == [date \in Days |-> F(1)]

\* the arguments of a run_backtest call whose strategy is any function
\* giving orders of the sizes (strategy <<>>)
Input(data, start_date, end_date, sizes) ==
    [data |-> data, start_date |-> start_date, end_date |-> end_date,
     sizes |-> sizes, strategy |-> <<>>]

\* the arguments of a run_backtest call whose strategy is
\* SplitBuyStrategy(params)
SplitBuyInput(data, start_date, end_date, params) ==
    [data |-> data, start_date |-> start_date, end_date |-> end_date,
     sizes |-> {}, strategy |-> <<params>>]

\* no ticker; or two tickers with rows on both days or on one, either A
\* before B with rows in ascending order or B before A with rows in
\* descending order
SmallData ==
    {<<>>}
    \cup {<<[ticker |-> "A", rows |-> frame(a, CloseA, FALSE)],
            [ticker |-> "B", rows |-> frame(b, CloseB, FALSE)]>> :
             a \in {{1, 2}, {1}}, b \in {{1, 2}, {2}}}
    \cup {<<[ticker |-> "B", rows |-> frame(b, CloseB, TRUE)],
            [ticker |-> "A", rows |-> frame(a, CloseA, TRUE)]>> :
             a \in {{1, 2}, {1}}, b \in {{1, 2}, {2}}}
\* windows that hold both days, the second day, or no day
Windows == {<<1, 2>>, <<2, 2>>, <<3, 3>>}
SmallInputs ==
    {Input(data, w[1], w[2], Quantities) : data \in SmallData, w \in Windows}

\* one ticker with more rows than the strategy is shown, in descending
\* order; the window holds its last two days
LongInput ==
    Input(<<[ticker |-> "A",
             rows |-> frame(1..(Lookback + 2), One, TRUE)]>>,
          Lookback + 1, Lookback + 2, Quantities)

\* BacktestEngine(): the default rates
DefaultConfig ==
    [commission_rate |-> Rat(15, 100000), tax_rate |-> Rat(23, 10000),
     slippage_rate |-> Rat(1, 1000)]

\* one ticker closing at 1,000 on both days, orders of 10 units
Thousand == [date \in Days |-> F(1000)]
RoundLotInput ==
    Input(<<[ticker |-> "A", rows |-> frame({1, 2}, Thousand, FALSE)]>>,
          1, 2, {10})
RoundLotCash == F(20000)

\* Portfolio | None before the first run
NonePortfolio == [none |-> TRUE]

RunInit ==
    /\ portfolio = NonePortfolio
    /\ lastCall = NoCall
    /\ calls = 0
    /\ \E c \in Configs \cup {DefaultConfig} :
          /\ config = c
          /\ engine = NewEngine(IF c = DefaultConfig THEN RoundLotCash
                                ELSE F(MaxCash))
          /\ \E i \in IF c = DefaultConfig THEN {RoundLotInput}
                      ELSE SmallInputs \cup {LongInput} :
                run = [IdleRun EXCEPT !.input = i]
    /\ memo = <<>>
    /\ log = <<>>
    /\ results = <<>>
    /\ metricsCall = NoMetricsCall
    /\ signalCall = NoSignalCall

reset_nothing(eng) == eng

\* run_backtest: self.daily_values = []; self.daily_dates = []
reset_valuations(eng) ==
    [eng EXCEPT !.daily_values = <<>>, !.daily_dates = <<>>]

\* Portfolio.get_summary (total_profit and total_profit_rate, the
\* differences to initial_cash, left out)
get_summary(pf) ==
    [initial_cash |-> pf.initial_cash, current_cash |-> pf.cash,
     total_invested |-> total_invested(pf),
     total_assets |-> total_assets(pf),
     num_holdings |-> Cardinality(get_holding_tickers(pf)),
     num_trades |-> Len(pf.trade_history)]

\* generate_report: an error before any metrics or portfolio exist,
\* otherwise the stored metrics next to the stored portfolio
generate_report(eng, pf) ==
    IF eng.metrics = <<>> \/ pf = NonePortfolio
    THEN [error |-> TRUE]
    ELSE [error |-> FALSE,
          metrics |-> eng.metrics[1],
          portfolio_summary |-> get_summary(pf),
          trade_count |-> Len(pf.trade_history),
          trades |-> pf.trade_history]

\* what a completed call leaves behind and returns
RunResult(input, pf, eng, returned) ==
    [input |-> input, trade_history |-> pf.trade_history,
     daily_values |-> eng.daily_values, daily_dates |-> eng.daily_dates,
     returned |-> returned]

\* run_backtest up to the day loop.  The first call takes the prepared
\* input; a later call takes the same strategy and data with the same
\* window or with a window that holds no row.
RunBacktest ==
    /\ run.pc \in {"idle", "done"}
    /\ run.n < MaxRuns
    /\ \E input \in IF run.n = 0 THEN {run.input}
                    ELSE {run.input,
                          [run.input EXCEPT !.start_date = 1,
                                            !.end_date = 0]} :
          LET pf == Portfolio(engine.initial_cash)
              eng == reset_valuations(engine)
              trading_dates == sorted(all_dates(input.data,
                                   input.start_date, input.end_date))
          IN  /\ portfolio' = pf
              /\ engine' = eng
              /\ log' = <<>>
              /\ IF trading_dates = <<>>
                 THEN /\ run' = [run EXCEPT !.pc = "done", !.input = input,
                                   !.trading_dates = <<>>,
                                   !.ticker_data = <<>>,
                                   !.day = 0, !.idx = 0,
                                   !.returned = <<BacktestMetrics>>,
                                   !.n = @ + 1, !.report = <<>>]
                      /\ results' = Append(results,
                             RunResult(input, pf, eng, BacktestMetrics))
                 ELSE /\ run' = [run EXCEPT !.pc = "day", !.input = input,
                                   !.trading_dates = trading_dates,
                                   !.ticker_data = ticker_data_of(input.data),
                                   !.day = 1, !.idx = 1,
                                   !.returned = <<>>,
                                   !.n = @ + 1, !.report = <<>>]
                      /\ UNCHANGED results
    /\ UNCHANGED <<config, lastCall, calls, memo, metricsCall,
                   signalCall>>

\* max_buy_count=int(strategy.params.get("split_count", 5))
strategy_question(strategy, question) ==
    IF strategy = <<>> THEN question
    ELSE [question EXCEPT
             !.position_info.max_buy_count = strategy[1].split_count]

InDay ==
    /\ run.pc = "day"
    /\ run.day <= Len(run.trading_dates)

current_date == run.trading_dates[run.day]
current_frame == run.ticker_data[run.idx]

\* _simulate_day, a ticker without a row for the day: continue
SkipTicker ==
    /\ InDay
    /\ run.idx <= Len(run.ticker_data)
    /\ \/ available_data(current_frame.rows, current_date) = <<>>
       \/ today_data(current_frame.rows, current_date) = <<>>
    /\ run' = [run EXCEPT !.idx = @ + 1]
    /\ UNCHANGED <<portfolio, config, lastCall, calls, engine, memo, log,
                   results, metricsCall,
                   signalCall>>

\* _simulate_day, a ticker with a row for the day: the strategy is asked
\* and its signal is executed.  The strategy is a function: a question it
\* has answered before gets the same answer; the split-buy strategy
\* answers as generate_signal says.
TradeTicker ==
    /\ InDay
    /\ run.idx <= Len(run.ticker_data)
    /\ today_data(current_frame.rows, current_date) # <<>>
    /\ LET ticker == current_frame.ticker
           current_price ==
               today_data(current_frame.rows, current_date)[1].close
           pf == get_position(portfolio, ticker)
           question ==
               strategy_question(run.input.strategy,
                   Question(current_frame.rows, pf, ticker, current_date))
       IN  \E signal \in IF run.input.strategy # <<>>
                         THEN {generate_signal(run.input.strategy[1],
                                   question.market_data,
                                   question.position_info,
                                   question.available_cash)}
                         ELSE IF question \in DOMAIN memo
                         THEN {memo[question]}
                         ELSE Signals(run.input.sizes) :
             \E r \in {execute_signal(pf, config, ticker, signal,
                                      current_price, current_date)} :
                /\ memo' = IF question \in DOMAIN memo
                              \/ run.input.strategy # <<>>
                           THEN memo
                           ELSE memo @@ (question :> signal)
                /\ portfolio' = r.pf
                /\ log' = Append(log,
                       [date |-> current_date, ticker |-> ticker,
                        close |-> current_price, question |-> question,
                        signal |-> signal, filled |-> r.ret])
    /\ run' = [run EXCEPT !.idx = @ + 1]
    /\ UNCHANGED <<config, lastCall, calls, engine, results, metricsCall,
                   signalCall>>

\* the day loop after _simulate_day: the day's valuation is recorded
EndOfDay ==
    /\ InDay
    /\ run.idx > Len(run.ticker_data)
    /\ engine' = [engine EXCEPT
           !.daily_values = Append(@, calculate_total_value(portfolio,
                                          run.ticker_data, current_date)),
           !.daily_dates = Append(@, current_date)]
    /\ run' = [run EXCEPT !.day = @ + 1, !.idx = 1]
    /\ UNCHANGED <<portfolio, config, lastCall, calls, memo, log, results,
                   metricsCall,
                   signalCall>>

\* after the day loop: the metrics are computed, stored and returned
\* (an exception of calculate_metrics ends the call without a result)
Finish ==
    /\ run.pc = "day"
    /\ run.day > Len(run.trading_dates)
    /\ \E m \in {calculate_metrics(portfolio.trade_history,
                     engine.daily_values, engine.initial_cash,
                     Len(run.trading_dates))} :
          IF m.raised
          THEN /\ run' = [run EXCEPT !.pc = "raised"]
               /\ UNCHANGED <<engine, results>>
          ELSE /\ run' = [run EXCEPT !.pc = "done",
                                     !.returned = <<m.metrics>>]
               /\ engine' = [engine EXCEPT !.metrics = <<m.metrics>>]
               /\ results' = Append(results,
                      RunResult(run.input, portfolio, engine, m.metrics))
    /\ UNCHANGED <<portfolio, config, lastCall, calls, memo, log,
                   metricsCall,
                   signalCall>>

\* generate_report, called between two run_backtest calls; what it
\* returned is kept
GenerateReport ==
    /\ run.pc \in {"idle", "done"}
    /\ run.report = <<>>
    /\ run' = [run EXCEPT !.report = <<generate_report(engine, portfolio)>>]
    /\ UNCHANGED <<portfolio, config, lastCall, calls, engine, memo, log,
                   results, metricsCall, signalCall>>

RunNext ==
    \/ RunBacktest
    \/ SkipTicker
    \/ TradeTicker
    \/ EndOfDay
    \/ Finish
    \/ GenerateReport

RunSpec == RunInit /\ [][RunNext]_vars

\* --- run_backtest driven by the split-buy strategy -----------------------
\* the frame of a ticker with a volume of 1 in every row
volume_frame(dates, close) ==
    [i \in 1..Cardinality(dates) |->
        VolumeRow(sorted(dates)[i], close[sorted(dates)[i]], 1)]

\* closes by date: A falls for three days, recovers and falls again; B
\* falls, stays, and falls
Dip ==
    [date \in Days |->
        F(IF date <= 6 THEN <<4, 3, 2, 1, 4, 3>>[date] ELSE 1)]
Slide ==
    [date \in Days |->
        F(IF date <= 6 THEN <<3, 3, 2, 2, 2, 1>>[date] ELSE 1)]

\* A has a row on each of six days, B on four of them
SplitBuyData ==
    {<<[ticker |-> "A", rows |-> volume_frame(1..6, Dip)]>>,
     <<[ticker |-> "A", rows |-> volume_frame(1..6, Dip)],
       [ticker |-> "B", rows |-> volume_frame({2, 3, 4, 6}, Slide)]>>}

SplitBuySeed == F(20)
SplitBuyCash == F(40)

\* a lookback of one day, a profit target of 50 percent, with and without
\* a stop loss
SplitBuyParams ==
    {Params(SplitBuySeed, n, t, 1, F(50), l, 1) :
        n \in 1..MaxSplit, t \in {Zero, F(30)}, l \in {Zero, F(50)}}

SplitBuyInit ==
    /\ portfolio = NonePortfolio
    /\ lastCall = NoCall
    /\ calls = 0
    /\ \E c \in Configs \cup {ZeroConfig} :
          /\ config = c
          /\ engine = NewEngine(SplitBuyCash)
          /\ \E d \in SplitBuyData, p \in SplitBuyParams :
                run = [IdleRun EXCEPT !.input = SplitBuyInput(d, 1, 6, p)]
    /\ memo = <<>>
    /\ log = <<>>
    /\ results = <<>>
    /\ metricsCall = NoMetricsCall
    /\ signalCall = NoSignalCall

SplitBuySpec == SplitBuyInit /\ [][RunNext]_vars

\* --- run_backtest on a frame with two rows for one date ------------------
\* ticker A with two rows dated 1 that close at different prices, in
\* either order, and ticker B with a row on day 2 alone
RepeatedDateData ==
    {<<[ticker |-> "A", rows |-> <<Row(1, F(c[1])), Row(1, F(c[2]))>>],
       [ticker |-> "B", rows |-> frame({2}, CloseB, FALSE)]>> :
        c \in {<<1, MaxPrice>>, <<MaxPrice, 1>>}}

RepeatedDateInit ==
    /\ portfolio = NonePortfolio
    /\ lastCall = NoCall
    /\ calls = 0
    /\ \E c \in Configs :
          /\ config = c
          /\ engine = NewEngine(F(MaxCash))
          /\ \E d \in RepeatedDateData :
                run = [IdleRun EXCEPT !.input = Input(d, 1, 2, Quantities)]
    /\ memo = <<>>
    /\ log = <<>>
    /\ results = <<>>
    /\ metricsCall = NoMetricsCall
    /\ signalCall = NoSignalCall

RepeatedDateSpec == RepeatedDateInit /\ [][RunNext]_vars

(***************************************************************************)
(* Properties.                                                             *)
(***************************************************************************)
History == portfolio.trade_history
Positions == portfolio.positions

\* the position of a ticker, an absent key counting as an empty position
PosOf(pf, t) ==
    IF t \in DOMAIN pf.positions THEN pf.positions[t] ELSE Position(t)

Last(h) == h[Len(h)]

\* C1: with only positive-quantity calls (non-negative price, commission and
\* tax), the ledger's cash is never negative.
C1_CashNeverNegative ==
    (\A i \in 1..Len(History) : History[i].quantity > 0)
        => RLeq(Zero, portfolio.cash)

\* C2: every position with quantity 0 has avg_price 0 and buy_count 0.
C2_FlatPositionIsClean ==
    \A t \in DOMAIN Positions :
        Positions[t].quantity = 0
            => Positions[t].avg_price = Zero /\ Positions[t].buy_count = 0

\* C3: a buy whose total cost price * quantity + commission exceeds the cash
\* returns false and leaves the whole portfolio (cash, positions mapping,
\* trade history) as it was.
C3_RejectedBuyChangesNothing ==
    [][(/\ lastCall'.op = "buy"
        /\ RLess(portfolio.cash,
                 RAdd(RMul(lastCall'.price, F(lastCall'.quantity)),
                      lastCall'.commission)))
       => (~lastCall'.ret /\ portfolio' = portfolio)]_vars

C3_Witness ==
    /\ lastCall.op = "buy" /\ ~lastCall.ret /\ lastCall.quantity > 0
    /\ RLess(portfolio.cash,
             RAdd(RMul(lastCall.price, F(lastCall.quantity)),
                  lastCall.commission))
    /\ Len(History) > 0
    /\ lastCall.ticker \notin DOMAIN Positions

\* C4 (as claimed): a sell of more units than are held returns false and
\* leaves cash, the positions mapping and the trade history unchanged.
C4_RejectedSellChangesNothing ==
    [][(/\ lastCall'.op = "sell"
        /\ PosOf(portfolio, lastCall'.ticker).quantity < lastCall'.quantity)
       => (/\ ~lastCall'.ret
           /\ portfolio'.cash = portfolio.cash
           /\ portfolio'.positions = portfolio.positions
           /\ portfolio'.trade_history = portfolio.trade_history)]_vars

\* C4 (amended): a sell of more units than are held returns false, fills
\* nothing, and leaves cash, the trade history and every ticker's position
\* unchanged, an absent key counting as an empty position; the positions
\* mapping can only gain an empty position for the requested ticker.
C4_RejectedSellFillsNothing ==
    [][(/\ lastCall'.op = "sell"
        /\ PosOf(portfolio, lastCall'.ticker).quantity < lastCall'.quantity)
       => (/\ ~lastCall'.ret
           /\ portfolio'.cash = portfolio.cash
           /\ portfolio'.trade_history = portfolio.trade_history
           /\ \A t \in Tickers : PosOf(portfolio', t) = PosOf(portfolio, t)
           /\ DOMAIN portfolio'.positions
                  = DOMAIN portfolio.positions \cup {lastCall'.ticker})]_vars

\* a rejected sell on a ticker of which some units, but fewer, are held
C4_Witness ==
    /\ lastCall.op = "sell" /\ ~lastCall.ret
    /\ lastCall.ticker \in DOMAIN Positions
    /\ Positions[lastCall.ticker].quantity > 0
    /\ Positions[lastCall.ticker].quantity < lastCall.quantity

\* C5: no position ever has a negative quantity.
C5_NoShortPosition ==
    \A t \in DOMAIN Positions : Positions[t].quantity >= 0

\* a sell has just taken the last units of a position
C5_Witness ==
    /\ lastCall.op = "sell" /\ lastCall.ret /\ lastCall.quantity > 0
    /\ Positions[lastCall.ticker].quantity = 0

\* C6: the trade history is append-only: a successful buy or sell appends
\* exactly one record (of that call) at the end, a rejected one appends
\* none, and the earlier history stays a prefix of the later one.
C6_HistoryAppendOnly ==
    [][/\ lastCall'.op \in {"buy", "sell"} /\ lastCall'.ret
          => /\ Len(portfolio'.trade_history) = Len(History) + 1
             /\ SubSeq(portfolio'.trade_history, 1, Len(History)) = History
             /\ Last(portfolio'.trade_history).side = lastCall'.op
             /\ Last(portfolio'.trade_history).ticker = lastCall'.ticker
             /\ Last(portfolio'.trade_history).quantity = lastCall'.quantity
             /\ Last(portfolio'.trade_history).price = lastCall'.price
       /\ ~lastCall'.ret => portfolio'.trade_history = History]_vars

\* a fill has been appended after an earlier, different record
C6_Witness ==
    /\ lastCall.ret /\ Len(History) >= 2
    /\ History[1] # History[2]

\* C7: every trade record has quantity > 0 (a BUY or SELL signal with
\* quantity 0 is rejected and leaves no record).
C7_TradeQuantityPositive ==
    \A i \in 1..Len(History) : History[i].quantity > 0

\* the records of ticker t in history h, in order
RecordsOf(h, t) == SelectSeq(h, LAMBDA r : r.ticker = t)

RECURSIVE SumQuantity(_)
SumQuantity(h) ==
    IF h = <<>> THEN 0 ELSE h[1].quantity + SumQuantity(Tail(h))

RECURSIVE SumCost(_)
SumCost(h) ==
    IF h = <<>> THEN Zero
    ELSE RAdd(RMul(h[1].price, F(h[1].quantity)), SumCost(Tail(h)))

OnlyBuys(h) == \A i \in 1..Len(h) : h[i].side = "buy"
SamePrice(h) == \A i \in 1..Len(h) : h[i].price = h[1].price

\* C8: after a sequence of buys of one ticker from a flat position,
\* avg_price * quantity is the sum of price * quantity over the buys, so
\* avg_price is their quantity-weighted mean; buys that all have the same
\* price leave the avg_price and quantity of one buy of the total quantity.
C8_AvgCostIsWeightedMean ==
    \A t \in Tickers :
        LET h == RecordsOf(History, t)
            pos == PosOf(portfolio, t)
        IN  OnlyBuys(h) =>
              /\ pos.quantity = SumQuantity(h)
              /\ RMul(pos.avg_price, F(pos.quantity)) = SumCost(h)
              /\ (h # <<>> /\ SamePrice(h)) =>
                    LET one == update_on_buy(Position(t), SumQuantity(h),
                                             h[1].price)
                    IN  /\ pos.avg_price = one.avg_price
                        /\ pos.quantity = one.quantity

\* two fills of different size at different prices
C8_Witness ==
    \E t \in Tickers :
        LET h == RecordsOf(History, t)
        IN  /\ Len(h) = 2 /\ OnlyBuys(h)
            /\ h[1].price # h[2].price
            /\ h[1].quantity > h[2].quantity /\ h[2].quantity > 0
            /\ Positions[t].avg_price[2] # 1

\* the last record of ticker t is a sell of at least one unit
ClosedBySell(pf, t) ==
    LET h == RecordsOf(pf.trade_history, t)
    IN  h # <<>> /\ Last(h).side = "sell" /\ Last(h).quantity > 0

\* C9: a successful sell of the whole held quantity sets avg_price and
\* buy_count to 0, the next successful buy at price p then gives
\* avg_price = p and buy_count = 1, and a partial sell leaves avg_price and
\* buy_count unchanged.
C9_FullSellResetsCostBasis ==
    [][LET t == lastCall'.ticker
           before == PosOf(portfolio, t)
           after == PosOf(portfolio', t)
       IN  /\ (lastCall'.op = "sell" /\ lastCall'.ret
                  /\ lastCall'.quantity = before.quantity)
                 => (after.avg_price = Zero /\ after.buy_count = 0)
           /\ (lastCall'.op = "sell" /\ lastCall'.ret
                  /\ lastCall'.quantity < before.quantity)
                 => (/\ after.avg_price = before.avg_price
                     /\ after.buy_count = before.buy_count)
           /\ (lastCall'.op = "buy" /\ lastCall'.ret
                  /\ before.quantity = 0 /\ ClosedBySell(portfolio, t))
                 => (/\ after.avg_price = lastCall'.price
                     /\ after.buy_count = 1)]_vars

\* C10: a successful sell of q units at price p credits p*q - commission -
\* tax to cash and records profit (p - avg)*q - commission - tax and
\* profit_rate (p - avg)/avg*100 (0 when avg is 0), avg being the
\* position's avg_price before the sell; a buy record has tax 0, profit 0.
C10_SellProceedsAndProfit ==
    [][LET c == lastCall'
           avg == PosOf(portfolio, c.ticker).avg_price
           rec == Last(portfolio'.trade_history)
           gross == RMul(c.price, F(c.quantity))
           basis == RMul(avg, F(c.quantity))
       IN  /\ (c.op = "sell" /\ c.ret) =>
                 /\ RAdd(RAdd(portfolio'.cash, c.commission), c.tax)
                        = RAdd(portfolio.cash, gross)
                 /\ RAdd(RAdd(RAdd(rec.profit, c.commission), c.tax), basis)
                        = gross
                 /\ avg = Zero => rec.profit_rate = Zero
                 /\ avg # Zero =>
                        RMul(rec.profit_rate, avg)
                            = RMul(F(100), RSub(c.price, avg))
           /\ (c.op = "buy" /\ c.ret) =>
                 (rec.tax = Zero /\ rec.profit = Zero)]_vars

\* a sell that emptied a position bought at another price, with fees
C10_Witness ==
    /\ lastCall.op = "sell" /\ lastCall.ret /\ lastCall.quantity > 0
    /\ Positions[lastCall.ticker].quantity = 0
    /\ lastCall.commission # Zero /\ lastCall.tax # Zero
    /\ Last(History).profit_rate # Zero

(***************************************************************************)
(* Properties of calculate_metrics (MetricsSpec).                          *)
(***************************************************************************)
\* calculate_metrics has returned (it did not raise) a result
MetricsReturned == metricsCall.called /\ ~metricsCall.result.raised
Result == metricsCall.result.metrics

Indices(h, P(_)) == {i \in 1..Len(h) : P(h[i])}
IsSell(t) == t.side = "sell"
IsWinner(t) == t.side = "sell" /\ RLess(Zero, t.profit)
IsLoser(t) == t.side = "sell" /\ ~RLess(Zero, t.profit)

\* every field of a result is zero
AllZero(m) ==
    /\ m.total_return = Zero
    /\ m.annual_return = NoAnnual
    /\ m.sharpe_ratio = NoSharpe
    /\ m.max_drawdown = Zero
    /\ m.win_rate = Zero
    /\ m.avg_profit = Zero
    /\ m.avg_loss = Zero
    /\ m.profit_factor = Zero
    /\ m.total_trades = 0
    /\ m.winning_trades = 0
    /\ m.losing_trades = 0
    /\ m.avg_holding_days = Zero
    /\ m.max_consecutive_wins = 0
    /\ m.max_consecutive_losses = 0

\* C17: calculate_metrics called with an empty valuation series returns the
\* all-zero result and does not raise, whatever the trade history (sells
\* included), the initial cash and the trading-day count are.
C17_EmptyValuationsGiveZeroMetrics ==
    (metricsCall.called /\ metricsCall.daily_values = <<>>) =>
        /\ ~metricsCall.result.raised
        /\ AllZero(Result)

C17_Witness ==
    /\ metricsCall.called
    /\ metricsCall.daily_values = <<>>
    /\ Indices(metricsCall.trade_history, IsWinner) # {}
    /\ metricsCall.initial_cash = Zero
    /\ metricsCall.trading_days > 0

\* the running peak and the drawdown at the i-th valuation
PeakAt(v, i) ==
    CHOOSE p \in {v[j] : j \in 1..i} : \A j \in 1..i : RLeq(v[j], p)
DrawdownAt(v, i) ==
    RMul(RDiv(RSub(PeakAt(v, i), v[i]), PeakAt(v, i)), F(100))
NeverDecreases(v) == \A i \in 1..(Len(v) - 1) : RLeq(v[i], v[i + 1])

\* C18: the maximum drawdown of a returned result is the largest of
\* (peak_i - v_i) / peak_i * 100 over the series, peak_i being the largest
\* valuation up to i; it is 0 for a series that never decreases and 25 for
\* 100, 120, 90, 110.
C18_MaxDrawdownIsLargestFallFromPeak ==
    (MetricsReturned /\ metricsCall.daily_values # <<>>) =>
        LET v == metricsCall.daily_values
            mdd == Result.max_drawdown
        IN  /\ \E i \in 1..Len(v) : mdd = DrawdownAt(v, i)
            /\ \A i \in 1..Len(v) : RLeq(DrawdownAt(v, i), mdd)
            /\ NeverDecreases(v) => mdd = Zero
            /\ v = <<F(100), F(120), F(90), F(110)>> => mdd = F(25)

C18_Witness ==
    /\ MetricsReturned
    /\ metricsCall.daily_values = <<F(100), F(120), F(90), F(110)>>
    /\ Result.max_drawdown = F(25)

\* the trade-outcome statistics of a result
TradeStats(m) ==
    <<m.total_trades, m.winning_trades, m.losing_trades, m.win_rate>>

\* the same call with another trade history
StatsWith(h) ==
    TradeStats(calculate_metrics(h, metricsCall.daily_values,
                                 metricsCall.initial_cash,
                                 metricsCall.trading_days).metrics)

ABuy == TradeRecord(Today, "B", "buy", 2, F(2), Zero, Zero, Zero, Zero)

SellStatistics ==
    LET h == metricsCall.trade_history
        sells == Cardinality(Indices(h, IsSell))
        wins == Cardinality(Indices(h, IsWinner))
        losses == Cardinality(Indices(h, IsLoser))
    IN  /\ Result.total_trades = sells
        /\ Result.winning_trades = wins
        /\ Result.losing_trades = losses
        /\ Result.winning_trades + Result.losing_trades
              = Result.total_trades
        /\ sells > 0 => Result.win_rate = RMul(Rat(wins, sells), F(100))
        /\ TradeStats(Result) = StatsWith(SelectSeq(h, IsSell))
        /\ TradeStats(Result) = StatsWith(<<ABuy>> \o h)
        /\ TradeStats(Result) = StatsWith(h \o <<ABuy>>)

\* C19 (as stated): in every returned result total_trades is the number of
\* sell records, a sell is a winner iff its profit is positive and a loser
\* otherwise, winners + losers = total_trades, the win rate is winners /
\* total_trades * 100, and buy records added or removed change none of
\* these.
C19_StatsCountSellsOnly == MetricsReturned => SellStatistics

\* C19 (amended): the same, for a call with a non-empty valuation series;
\* with an empty series all four statistics are 0.
C19_StatsCountSellsOnlyGivenValuations ==
    MetricsReturned =>
        IF metricsCall.daily_values # <<>> THEN SellStatistics
        ELSE TradeStats(Result) = <<0, 0, 0, Zero>>

C19_Witness ==
    /\ MetricsReturned
    /\ metricsCall.daily_values # <<>>
    /\ Indices(metricsCall.trade_history, IsWinner) # {}
    /\ Indices(metricsCall.trade_history, IsLoser) # {}
    /\ \E i \in 1..Len(metricsCall.trade_history) :
          metricsCall.trade_history[i].side = "buy"
    /\ Result.total_trades < Len(metricsCall.trade_history)
    /\ Result.win_rate # Zero

RECURSIVE WinSum(_)
WinSum(h) ==
    IF h = <<>> THEN Zero
    ELSE RAdd(IF IsWinner(Head(h)) THEN Head(h).profit ELSE Zero,
              WinSum(Tail(h)))

RECURSIVE LossSum(_)
LossSum(h) ==
    IF h = <<>> THEN Zero
    ELSE RAdd(IF IsLoser(Head(h)) THEN Head(h).profit ELSE Zero,
              LossSum(Tail(h)))

ProfitFactorCases ==
    LET h == metricsCall.trade_history
        gain == WinSum(h)
        loss == RAbs(LossSum(h))
    IN  /\ (Indices(h, IsSell) # {} /\ loss # Zero) =>
              Result.profit_factor = RDiv(gain, loss)
        /\ (Indices(h, IsWinner) # {} /\ loss = Zero) =>
              Result.profit_factor = Inf

\* C20 (as stated): in every returned result the profit factor is the sum
\* of the winning profits over the absolute sum of the losing profits, it
\* is +infinity when there are winners and the losses sum to zero, and it
\* is 0 when there are no sells.
C20_ProfitFactor ==
    MetricsReturned =>
        /\ ProfitFactorCases
        /\ Indices(metricsCall.trade_history, IsSell) = {} =>
              Result.profit_factor = Zero

\* C20 (amended): the same, the first two cases for a call with a
\* non-empty valuation series; with an empty series the profit factor is 0.
C20_ProfitFactorGivenValuations ==
    MetricsReturned =>
        /\ IF metricsCall.daily_values # <<>> THEN ProfitFactorCases
           ELSE Result.profit_factor = Zero
        /\ Indices(metricsCall.trade_history, IsSell) = {} =>
              Result.profit_factor = Zero

C20_Witness ==
    /\ MetricsReturned
    /\ metricsCall.daily_values # <<>>
    /\ Indices(metricsCall.trade_history, IsWinner) # {}
    /\ Indices(metricsCall.trade_history, IsLoser) # {}
    /\ Result.profit_factor = F(2)

C20_WitnessInfinite ==
    /\ MetricsReturned
    /\ Indices(metricsCall.trade_history, IsWinner) # {}
    /\ Result.profit_factor = Inf

(***************************************************************************)
(* Properties of run_backtest (RunSpec).                                   *)
(***************************************************************************)
\* the rows the caller supplied for a ticker, in the caller's order
Supplied(ticker) ==
    LET at == {i \in 1..Len(run.input.data) :
                  run.input.data[i].ticker = ticker}
    IN  run.input.data[CHOOSE i \in at : TRUE].rows

Range(s) == {s[i] : i \in 1..Len(s)}
Min(a, b) == IF a < b THEN a ELSE b

\* the rows of a ticker that are not after the day
Eligible(ticker, date) == {r \in Range(Supplied(ticker)) : r.date <= date}

\* C11: whatever order the caller supplied the rows in, the view handed to
\* the strategy for a ticker on day d holds only rows of that ticker dated
\* d or earlier, in ascending order of date, and they are the most recent
\* such rows, 30 at most.
C11_NoLookAhead ==
    \A i \in 1..Len(log) :
        LET view == log[i].question.market_data
            eligible == Eligible(log[i].ticker, log[i].date)
        IN  /\ Range(view) \subseteq eligible
            /\ \A k \in 1..(Len(view) - 1) : view[k].date < view[k + 1].date
            /\ Len(view) = Min(Cardinality(eligible), 30)
            /\ \A r \in eligible \ Range(view) :
                  \A k \in 1..Len(view) : r.date < view[k].date

\* a view cut to 30 rows, taken from a frame supplied latest row first
\* that also holds a row after the day
C11_Witness ==
    \E i \in 1..Len(log) :
        LET rows == Supplied(log[i].ticker)
        IN  /\ Len(log[i].question.market_data) = 30
            /\ Cardinality(Eligible(log[i].ticker, log[i].date)) > 30
            /\ rows[1].date > rows[Len(rows)].date
            /\ \E r \in Range(rows) : r.date > log[i].date

\* where a ticker stands in the caller's map
MapIndex(ticker) ==
    CHOOSE i \in 1..Len(run.input.data) : run.input.data[i].ticker = ticker

\* how many of the first n strategy calls of the run ended in a fill
Fills(n) == Cardinality({k \in 1..n : log[k].filled})

\* what a trade record did to the cash
CashEffect(t) ==
    IF t.side = "buy"
    THEN RNeg(RAdd(RMul(t.price, F(t.quantity)), t.commission))
    ELSE RSub(RSub(RMul(t.price, F(t.quantity)), t.commission), t.tax)

RECURSIVE CashAfter(_, _)
CashAfter(h, n) ==
    IF n = 0 THEN engine.initial_cash
    ELSE RAdd(CashAfter(h, n - 1), CashEffect(h[n]))

\* what the buy asked for by a strategy call costs
BuyCost(e) ==
    LET exec == RMul(e.close, RAdd(F(1), config.slippage_rate))
        gross == RMul(exec, F(e.signal.quantity))
    IN  RAdd(gross, RMul(gross, config.commission_rate))

SideOf(signal) == IF signal.signal_type = "BUY" THEN "buy" ELSE "sell"

\* two buy signals for two tickers on one day, one right after the other,
\* each within the cash the first call saw, but not both
Contention(i) ==
    /\ i + 1 <= Len(log)
    /\ log[i].date = log[i + 1].date
    /\ log[i].signal.signal_type = "BUY"
    /\ log[i + 1].signal.signal_type = "BUY"
    /\ RLeq(BuyCost(log[i]), log[i].question.available_cash)
    /\ RLeq(BuyCost(log[i + 1]), log[i].question.available_cash)
    /\ RLess(log[i].question.available_cash,
             RAdd(BuyCost(log[i]), BuyCost(log[i + 1])))

\* C12: within a day the tickers are handled in the order of the caller's
\* map; every strategy call is shown the cash left by the fills before it;
\* of two buys competing for cash that covers one, the earlier is filled
\* and the later rejected; and a rejected order is not executed later: the
\* trade history is, in order, the filled signals, each dated the day it
\* was given.
C12_MapOrderAndCashContention ==
    /\ \A i, j \in 1..Len(log) :
          (i < j /\ log[i].date = log[j].date) =>
              MapIndex(log[i].ticker) < MapIndex(log[j].ticker)
    /\ \A i \in 1..Len(log) :
          log[i].question.available_cash
              = CashAfter(portfolio.trade_history, Fills(i - 1))
    /\ \A i \in 1..Len(log) :
          Contention(i) => log[i].filled /\ ~log[i + 1].filled
    /\ run.pc \in {"day", "done"} =>
          /\ Len(portfolio.trade_history) = Fills(Len(log))
          /\ \A i \in 1..Len(log) :
                log[i].filled =>
                    LET t == portfolio.trade_history[Fills(i)]
                    IN  /\ t.date = log[i].date
                        /\ t.ticker = log[i].ticker
                        /\ t.side = SideOf(log[i].signal)
                        /\ t.quantity = log[i].signal.quantity

\* a completed two-day run in whose first day the second ticker's buy was
\* rejected for lack of cash: it never bought on that day
C12_Witness ==
    /\ run.pc = "done"
    /\ Len(engine.daily_dates) = 2
    /\ \E i \in 1..Len(log) :
          /\ Contention(i)
          /\ log[i].date = 1
          /\ log[i].filled
          /\ ~log[i + 1].filled
          /\ \A k \in 1..Len(portfolio.trade_history) :
                ~(/\ portfolio.trade_history[k].ticker = log[i + 1].ticker
                  /\ portfolio.trade_history[k].date = 1)

\* the dates, inside the window of the call, of the rows of all tickers
WindowDates ==
    {r.date : r \in {x \in UNION {Range(run.input.data[i].rows) :
                                      i \in 1..Len(run.input.data)} :
                        /\ run.input.start_date <= x.date
                        /\ x.date <= run.input.end_date}}

Rejections == Cardinality({i \in 1..Len(log) :
                              /\ log[i].signal.signal_type # "HOLD"
                              /\ ~log[i].filled})

HasRowOn(ticker, date) == \E r \in Range(Supplied(ticker)) : r.date = date

\* C13: the days of a run are the dates, inside the window, of the rows of
\* all tickers together; they are handled in strictly ascending order,
\* each once, and each gets its one valuation after all tickers of that
\* day were handled, so that a completed run has exactly one valuation
\* per trading day, in order, however many orders were rejected.
C13_OneValuationPerTradingDay ==
    run.n > 0 =>
        LET dates == engine.daily_dates
        IN  /\ Len(engine.daily_values) = Len(dates)
            /\ Range(dates) \subseteq WindowDates
            /\ \A k \in 1..(Len(dates) - 1) : dates[k] < dates[k + 1]
            /\ \A d \in WindowDates \ Range(dates) :
                  \A k \in 1..Len(dates) : dates[k] < d
            /\ run.pc = "done" => Range(dates) = WindowDates
            /\ \A k \in 1..Len(dates) :
                  \A i \in 1..Len(run.input.data) :
                      HasRowOn(run.input.data[i].ticker, dates[k]) =>
                          \E j \in 1..Len(log) :
                              /\ log[j].date = dates[k]
                              /\ log[j].ticker = run.input.data[i].ticker
            /\ \A j \in 1..Len(log) :
                  \/ log[j].date \in Range(dates)
                  \/ \A k \in 1..Len(dates) : dates[k] < log[j].date

\* a completed run over two days, one ticker having no row on one of
\* them, the rows supplied latest first, with two orders rejected
C13_Witness ==
    /\ run.pc = "done"
    /\ engine.daily_dates = <<1, 2>>
    /\ Len(engine.daily_values) = 2
    /\ Rejections >= 2
    /\ \E i \in 1..Len(run.input.data) :
          /\ ~HasRowOn(run.input.data[i].ticker, 1)
          /\ Len(run.input.data[3 - i].rows) = 2
          /\ run.input.data[3 - i].rows[1].date = 2

\* C14: a call whose window holds no row of any ticker (the empty map
\* included) returns the all-zero metrics without raising, without asking
\* the strategy and without a fill; its valuation series and its trade
\* history are empty.
C14_NoTradingDaysGivesZeroMetrics ==
    (run.n > 0 /\ WindowDates = {}) =>
        /\ run.pc = "done"
        /\ Len(run.returned) = 1
        /\ AllZero(run.returned[1])
        /\ log = <<>>
        /\ portfolio.trade_history = <<>>
        /\ portfolio.cash = engine.initial_cash
        /\ engine.daily_values = <<>>
        /\ engine.daily_dates = <<>>

\* such a call on an engine whose previous run traded
C14_Witness ==
    /\ run.n = 2
    /\ WindowDates = {}
    /\ run.input.data # <<>>
    /\ results[1].trade_history # <<>>
    /\ Len(run.returned) = 1

\* C15: two calls with the same strategy, data, map order and window on
\* an engine with the same rates give the same trade history, the same
\* valuation series and the same metrics, the second call reusing the
\* engine of the first.
C15_RunsAreDeterministic ==
    \A i, j \in 1..Len(results) :
        results[i].input = results[j].input =>
            /\ results[i].trade_history = results[j].trade_history
            /\ results[i].daily_values = results[j].daily_values
            /\ results[i].daily_dates = results[j].daily_dates
            /\ results[i].returned = results[j].returned

\* two completed calls with the same input that traded on two days
C15_Witness ==
    /\ Len(results) = 2
    /\ results[1].input = results[2].input
    /\ Len(results[2].daily_values) = 2
    /\ results[2].trade_history # <<>>
    /\ Rejections > 0
    /\ results[2].returned.total_trades > 0

\* the last strategy call of the run so far, and the record of its fill
LastEntry == log[Len(log)]
LastRecord == portfolio.trade_history[Len(portfolio.trade_history)]

\* C16: a BUY is sent to the ledger at close * (1 + slippage) with the
\* commission exec * quantity * commission rate, a SELL at close *
\* (1 - slippage) with the same commission formula and the tax exec *
\* quantity * tax rate, the quantity being the signal's; with the default
\* rates 10 units bought at a close of 1,000 execute at 1,001 with a
\* commission of 1.5015 and a debit of 10,011.5015.
C16_EngineCostModel ==
    (log # <<>> /\ LastEntry.filled) =>
        LET e == LastEntry
            t == LastRecord
            q == e.signal.quantity
            before == e.question.available_cash
        IN  /\ t.quantity = q
            /\ e.signal.signal_type = "BUY" =>
                  LET exec == RMul(e.close, RAdd(F(1), config.slippage_rate))
                      fee == RMul(RMul(exec, F(q)), config.commission_rate)
                  IN  /\ t.price = exec
                      /\ t.commission = fee
                      /\ t.tax = Zero
                      /\ portfolio.cash
                            = RSub(before, RAdd(RMul(exec, F(q)), fee))
            /\ e.signal.signal_type = "SELL" =>
                  LET exec == RMul(e.close, RSub(F(1), config.slippage_rate))
                      fee == RMul(RMul(exec, F(q)), config.commission_rate)
                      tax == RMul(RMul(exec, F(q)), config.tax_rate)
                  IN  /\ t.price = exec
                      /\ t.commission = fee
                      /\ t.tax = tax
                      /\ portfolio.cash
                            = RAdd(before,
                                   RSub(RSub(RMul(exec, F(q)), fee), tax))
            /\ (/\ config = DefaultConfig
                /\ e.signal = Signal("BUY", 10)
                /\ e.close = F(1000)) =>
                  /\ t.price = F(1001)
                  /\ t.commission = Rat(15015, 10000)
                  /\ RSub(before, portfolio.cash) = Rat(100115015, 10000)

\* with the default rates: 10 units bought at 1,000 on the first day and
\* sold at 1,000 on the second
C16_Witness ==
    /\ config = DefaultConfig
    /\ Len(log) = 2
    /\ log[1].signal = Signal("BUY", 10)
    /\ log[1].close = F(1000)
    /\ log[1].filled
    /\ log[2].signal = Signal("SELL", 10)
    /\ log[2].filled
    /\ portfolio.trade_history[1].price = F(1001)
    /\ LastRecord.price = F(999)

\* the sells of a history, in history order
SellsOf(h) == SelectSeq(h, IsSell)

\* the lengths of the unbroken runs of winners (or of losers) among sells
WinRuns(s) ==
    {k \in 0..Len(s) : \E i \in 1..(Len(s) - k + 1) :
                           \A j \in i..(i + k - 1) : IsWinner(s[j])}
LossRuns(s) ==
    {k \in 0..Len(s) : \E i \in 1..(Len(s) - k + 1) :
                           \A j \in i..(i + k - 1) : IsLoser(s[j])}
Largest(S) == CHOOSE k \in S : \A x \in S : x <= k

Streaks ==
    LET s == SellsOf(metricsCall.trade_history)
    IN  /\ Result.max_consecutive_wins = Largest(WinRuns(s))
        /\ Result.max_consecutive_losses = Largest(LossRuns(s))

\* C21 (as stated): in every returned result max_consecutive_wins and
\* max_consecutive_losses are the lengths of the longest unbroken runs of
\* winning and of losing sells in history order, a sell with profit <= 0
\* being a loss; buy records between two sells do not break a run.
C21_LongestStreaks == MetricsReturned => Streaks

\* C21 (amended): the same, for a call with a non-empty valuation series;
\* with an empty series both are 0.
C21_LongestStreaksGivenValuations ==
    MetricsReturned =>
        IF metricsCall.daily_values # <<>> THEN Streaks
        ELSE /\ Result.max_consecutive_wins = 0
             /\ Result.max_consecutive_losses = 0

\* two winners around a buy, counted as one run of two
C21_Witness ==
    /\ MetricsReturned
    /\ metricsCall.daily_values # <<>>
    /\ Len(metricsCall.trade_history) = 3
    /\ IsWinner(metricsCall.trade_history[1])
    /\ metricsCall.trade_history[2].side = "buy"
    /\ IsWinner(metricsCall.trade_history[3])
    /\ Result.max_consecutive_wins = 2

\* C28: a returned profit factor is +infinity only when at least one sell
\* record is a winner; a history whose sells all have profit <= 0 never
\* gets an infinite profit factor.
C28_InfiniteProfitFactorNeedsWinner ==
    (MetricsReturned /\ Result.profit_factor = Inf) =>
        Indices(metricsCall.trade_history, IsWinner) # {}

\* --- the valuation of a day ----------------------------------------------
\* the day whose valuation was recorded last, the portfolio being as that
\* valuation saw it
JustValued ==
    /\ run.pc \in {"day", "done", "raised"}
    /\ engine.daily_values # <<>>
    /\ run.pc = "day" => run.idx = 1

\* the close in the caller's rows of a ticker on a date
CloseOn(ticker, date) ==
    (CHOOSE r \in Range(Supplied(ticker)) : r.date = date).close

\* what a ticker adds to the valuation of a date
Worth(ticker, date) ==
    LET p == PosOf(portfolio, ticker)
    IN  IF p.quantity > 0
        THEN RMul(F(p.quantity),
                  IF HasRowOn(ticker, date) THEN CloseOn(ticker, date)
                  ELSE p.avg_price)
        ELSE Zero

\* C22: the valuation recorded for day d is the cash plus, for every ticker
\* held with a quantity above zero, the quantity times the ticker's close
\* on d when it has a row dated d and times the average cost otherwise; a
\* ticker with quantity 0 adds nothing; the portfolio valued is the one
\* left by all fills of the day.
C22_EndOfDayValuation ==
    JustValued =>
        LET d == Last(engine.daily_dates)
        IN  /\ Last(engine.daily_values)
                  = RAdd(portfolio.cash, RAdd(Worth("A", d), Worth("B", d)))
            /\ Len(portfolio.trade_history) = Fills(Len(log))
            /\ \A i \in 1..Len(log) : log[i].date <= d

\* the second day valued with both tickers held after a fill of that day,
\* one without a row on the day, the other closing away from its average
\* cost
C22_Witness ==
    /\ JustValued
    /\ Last(engine.daily_dates) = 2
    /\ \E t \in Tickers :
          /\ PosOf(portfolio, t).quantity > 0
          /\ ~HasRowOn(t, 2)
    /\ \E t \in Tickers :
          /\ PosOf(portfolio, t).quantity > 0
          /\ HasRowOn(t, 2)
          /\ CloseOn(t, 2) # PosOf(portfolio, t).avg_price
    /\ \E i \in 1..Len(log) : log[i].date = 2 /\ log[i].filled

\* --- a ticker without a row for the day ----------------------------------
\* the ticker the day loop has reached has no row dated the day
NoRowToday ==
    /\ InDay
    /\ run.idx <= Len(run.ticker_data)
    /\ ~HasRowOn(current_frame.ticker, current_date)

\* C23: on a trading day d for which a ticker has no row dated exactly d,
\* the strategy is not asked about it and nothing is changed on its
\* behalf, whether or not it has earlier rows and an open position: the
\* step that handles it leaves the cash, every position and the trade
\* history as they were, and no strategy call and no trade record carries
\* a ticker and a date without such a row.
C23_NoRowNoTrade ==
    /\ [][NoRowToday =>
             /\ portfolio' = portfolio
             /\ log' = log
             /\ memo' = memo
             /\ run' = [run EXCEPT !.idx = @ + 1]]_vars
    /\ [](\A i \in 1..Len(log) : HasRowOn(log[i].ticker, log[i].date))
    /\ [](run.pc \in {"day", "done", "raised"} =>
             \A k \in 1..Len(portfolio.trade_history) :
                 HasRowOn(portfolio.trade_history[k].ticker,
                          portfolio.trade_history[k].date))

\* the second day, past a ticker that has a row on the first day and none
\* on the second and is held since the first
C23_Witness ==
    /\ InDay
    /\ current_date = 2
    /\ \E i \in 1..(run.idx - 1) :
          LET t == run.ticker_data[i].ticker
          IN  /\ HasRowOn(t, 1)
              /\ ~HasRowOn(t, 2)
              /\ PosOf(portfolio, t).quantity > 0
              /\ \A k \in 1..Len(log) : log[k].ticker = t => log[k].date = 1

\* --- a HOLD signal -------------------------------------------------------
\* the step is a strategy call that answered HOLD
HoldStep ==
    /\ Len(log') = Len(log) + 1
    /\ Last(log').signal.signal_type = "HOLD"

\* C24: a HOLD signal changes nothing in the ledger: the cash, the
\* quantity, average cost and buy count of every position and the trade
\* history are after the step what they were before the strategy was
\* asked.
C24_HoldChangesNothing ==
    [][HoldStep =>
          /\ portfolio'.cash = portfolio.cash
          /\ portfolio'.trade_history = portfolio.trade_history
          /\ \A t \in Tickers :
                /\ PosOf(portfolio', t).quantity = PosOf(portfolio, t).quantity
                /\ PosOf(portfolio', t).avg_price
                       = PosOf(portfolio, t).avg_price
                /\ PosOf(portfolio', t).buy_count
                       = PosOf(portfolio, t).buy_count]_vars

\* the strategy has just answered HOLD for a ticker that is held, after
\* an earlier fill
C24_Witness ==
    /\ log # <<>>
    /\ LastEntry.signal.signal_type = "HOLD"
    /\ LastEntry.question.position_info.quantity > 0
    /\ PosOf(portfolio, LastEntry.ticker).quantity > 0
    /\ portfolio.trade_history # <<>>

(***************************************************************************)
(* Properties of the split-buy strategy (StrategySpec).                    *)
(***************************************************************************)
\* the call was shown enough rows to look back
EnoughRows ==
    Len(signalCall.market_data) >= signalCall.params.lookback_days + 1

CurrentClose == signalCall.market_data[Len(signalCall.market_data)].close
EarlierClose ==
    signalCall.market_data[Len(signalCall.market_data)
                               - signalCall.params.lookback_days].close

\* by how many percent the close fell since lookback_days ago
DropRate ==
    RMul(RSub(F(1), RDiv(CurrentClose, EarlierClose)), F(100))

C26_StoredResultsBelongToLatestCall ==
    run.pc = "done" =>
        /\ engine.metrics = run.returned
        /\ portfolio.trade_history = Last(results).trade_history
        /\ engine.daily_values = Last(results).daily_values
        /\ engine.daily_dates = Last(results).daily_dates
        /\ (run.report # <<>> /\ ~run.report[1].error) =>
              /\ run.report[1].metrics = Last(results).returned
              /\ run.report[1].trades = Last(results).trade_history

\* a call without a trading day, after a run that sold, whose report shows
\* the metrics of the earlier run next to the empty portfolio of the later
C26_StaleMetricsInReport ==
    /\ run.pc = "done"
    /\ run.n = 2
    /\ WindowDates = {}
    /\ run.report # <<>>
    /\ ~run.report[1].error
    /\ run.report[1].metrics = results[1].returned
    /\ run.report[1].metrics.total_trades > 0
    /\ run.report[1].trade_count = 0
    /\ run.returned = <<BacktestMetrics>>

(***************************************************************************)
(* The book value of the ledger (Spec).                                    *)
(***************************************************************************)
RECURSIVE BuyCommissions(_)
BuyCommissions(h) ==
    IF h = <<>> THEN Zero
    ELSE RAdd(BuyCommissions(SubSeq(h, 1, Len(h) - 1)),
              IF Last(h).side = "buy" THEN Last(h).commission ELSE Zero)

RECURSIVE SellProfits(_)
SellProfits(h) ==
    IF h = <<>> THEN Zero
    ELSE RAdd(SellProfits(SubSeq(h, 1, Len(h) - 1)),
              IF Last(h).side = "sell" THEN Last(h).profit ELSE Zero)

\* cash plus quantity times average cost over every ticker
BookValue(pf) ==
    RAdd(pf.cash,
         RAdd(RMul(F(PosOf(pf, "A").quantity), PosOf(pf, "A").avg_price),
              RMul(F(PosOf(pf, "B").quantity), PosOf(pf, "B").avg_price)))

\* C27: after any sequence of ledger buys and sells, filled or rejected,
\* total_assets = cash + sum of quantity times average cost
\* = initial cash - the commissions of all buy records + the realized
\* profits of all sell records; and a filled buy without commission leaves
\* total_assets as it was.
C27_BookValueIdentity ==
    /\ [](/\ total_assets(portfolio) = BookValue(portfolio)
          /\ total_assets(portfolio)
                 = RAdd(RSub(portfolio.initial_cash, BuyCommissions(History)),
                        SellProfits(History)))
    /\ [][(/\ lastCall'.op = "buy"
           /\ lastCall'.ret
           /\ lastCall'.commission = Zero)
             => total_assets(portfolio') = total_assets(portfolio)]_vars

\* a buy with a commission and a sell at a profit, both filled, after
\* which part of the position is still held
C27_Witness ==
    /\ Len(History) = 2
    /\ History[1].side = "buy"
    /\ RLess(Zero, History[1].commission)
    /\ History[2].side = "sell"
    /\ RLess(Zero, History[2].profit)
    /\ PosOf(portfolio, History[2].ticker).quantity > 0
    /\ RLess(Zero, total_invested(portfolio))
    /\ portfolio.cash # portfolio.initial_cash

\* --- the close a fill is priced at ---------------------------------------
\* C30: whenever the strategy is asked about a ticker on day d, the last
\* row of the view it is shown is dated d, and the close the engine takes
\* for the fill that may follow is the close of that last row, also when
\* the supplied frame has several rows for one date.
C30_FillPricedAtLastViewedClose ==
    /\ \A i \in 1..Len(log) :
          LET view == log[i].question.market_data
          IN  /\ view # <<>>
              /\ Last(view).date = log[i].date
              /\ log[i].close = Last(view).close
    /\ run.pc \in {"day", "done"} =>
          \A i \in 1..Len(log) :
              (log[i].filled /\ log[i].signal.signal_type = "BUY") =>
                  portfolio.trade_history[Fills(i)].price
                      = buy_exec_price(config,
                            Last(log[i].question.market_data).close)

(***************************************************************************)
(* Properties of a run driven by the split-buy strategy (SplitBuySpec).    *)
(***************************************************************************)
SplitCount == run.input.strategy[1].split_count

\* how many buy records of a ticker follow its last sell record
RECURSIVE BuysSinceFlat(_, _)
BuysSinceFlat(h, t) ==
    IF h = <<>> THEN 0
    ELSE IF Last(h).ticker # t THEN BuysSinceFlat(SubSeq(h, 1, Len(h) - 1), t)
    ELSE IF Last(h).side = "sell" THEN 0
    ELSE 1 + BuysSinceFlat(SubSeq(h, 1, Len(h) - 1), t)

\* the step adds a trade record of the ticker
Traded(t) ==
    /\ Len(portfolio'.trade_history) = Len(portfolio.trade_history) + 1
    /\ Last(portfolio'.trade_history).ticker = t

\* C29: in a run driven by the split-buy strategy the buy count of every
\* position stays at or below split_count at every moment; it counts the
\* buys since the position was last flat; and once it has reached
\* split_count the strategy asks for no further buy and the next trade of
\* that ticker is a sell of the whole position, which sets the buy count
\* back to 0.
C29_BuyCountWithinSplitCount ==
    /\ [](run.pc \in {"day", "done", "raised"} =>
             /\ \A t \in Tickers :
                   /\ PosOf(portfolio, t).buy_count <= SplitCount
                   /\ PosOf(portfolio, t).buy_count
                          = BuysSinceFlat(portfolio.trade_history, t)
             /\ \A i \in 1..Len(log) :
                   log[i].question.position_info.buy_count >= SplitCount
                       => log[i].signal.signal_type # "BUY")
    /\ [][run.pc = "day" =>
             \A t \in Tickers :
                 (PosOf(portfolio, t).buy_count >= SplitCount /\ Traded(t))
                     => /\ Last(portfolio'.trade_history).side = "sell"
                        /\ Last(portfolio'.trade_history).quantity
                               = PosOf(portfolio, t).quantity
                        /\ PosOf(portfolio', t).quantity = 0
                        /\ PosOf(portfolio', t).buy_count = 0]_vars

\* the close fell by more than the threshold between the last two rows
\* shown
Dropped(e) ==
    LET view == e.question.market_data
    IN  /\ Len(view) >= 2
        /\ RLess(run.input.strategy[1].buy_threshold,
                 RMul(RSub(F(1), RDiv(view[Len(view)].close,
                                      view[Len(view) - 1].close)), F(100)))

\* a ticker that reached a split_count of 2, was refused a third buy on a
\* day on which the price had dropped and the cash was there, was then
\* sold whole and bought again from a buy count of 0
C29_Witness ==
    /\ run.pc \in {"day", "done"}
    /\ SplitCount = 2
    /\ \E i, j, k \in 1..Len(log) :
          /\ i < j /\ j < k
          /\ log[i].ticker = log[j].ticker
          /\ log[j].ticker = log[k].ticker
          /\ log[i].question.position_info.buy_count = 2
          /\ log[i].signal.signal_type = "HOLD"
          /\ Dropped(log[i])
          /\ RLeq(run.input.strategy[1].total_seed,
                  log[i].question.available_cash)
          /\ log[j].signal.signal_type = "SELL"
          /\ log[j].filled
          /\ log[k].question.position_info.buy_count = 0
          /\ log[k].signal.signal_type = "BUY"
          /\ log[k].filled
====
